---------------------------- MODULE Spec2Model ----------------------------
(***************************************************************************)
(* A model of gm-fancy-lists (src/fancylists.go, the documented first      *)
(* definition of every function): the marker scanner, the marker           *)
(* classifiers, the two block parsers (list and list item) driven by the   *)
(* host engine's line loop, and the two HTML renderers.                    *)
(*                                                                         *)
(* Bytes are one-character strings, a line is a sequence of bytes, and Go  *)
(* indices (0-based) are kept: byte i of a Go slice is At(line, i).        *)
(***************************************************************************)
EXTENDS Integers, Sequences, FiniteSets, TLC

(***************************************************************************)
(* Bytes and the library predicates the scanner uses                       *)
(***************************************************************************)
LcLetters == <<"a","b","c","d","e","f","g","h","i","j","k","l","m",
               "n","o","p","q","r","s","t","u","v","w","x","y","z">>

UcLetters == <<"A","B","C","D","E","F","G","H","I","J","K","L","M",
               "N","O","P","Q","R","S","T","U","V","W","X","Y","Z">>

Digits == <<"0","1","2","3","4","5","6","7","8","9">>

Range(s) == {s[k] : k \in DOMAIN s}

\* Two bytes above 0x7F that unicode.IsLetter(rune(b)) accepts (Latin-1
\* capital A tilde and small e acute), named by their hexadecimal code.
Latin1Upper == {"0xC3"}
Latin1Lower == {"0xE9"}

\* A byte above 0x7F that is a letter without case (the feminine ordinal
\* indicator); 0xC3 0xAA is also the UTF-8 encoding of e circumflex.
Latin1Other == {"0xAA"}

IndexOf(s, c) == CHOOSE k \in DOMAIN s : s[k] = c

At(line, i) == line[i + 1]

\* Go's line[a:b]
Slice(line, a, b) == SubSeq(line, a + 1, b)

IsNumeric(c) == c \in Range(Digits)

IsLetter(c) ==
    c \in Range(LcLetters) \cup Range(UcLetters) \cup Latin1Upper \cup Latin1Lower \cup Latin1Other

IsLower(c) == c \in Range(LcLetters) \cup Latin1Lower

IsSpace(c) == c \in {" ", "\t", "\n", "\r"}

ToLower(c) == IF c \in Range(UcLetters) THEN LcLetters[IndexOf(UcLetters, c)] ELSE c

ToUpper(c) == IF c \in Range(LcLetters) THEN UcLetters[IndexOf(LcLetters, c)] ELSE c

StringsToLower(s) == [k \in DOMAIN s |-> ToLower(s[k])]

StringsToUpper(s) == [k \in DOMAIN s |-> ToUpper(s[k])]

RECURSIVE IsBlank(_)
IsBlank(bs) ==
    IF Len(bs) = 0 THEN TRUE
    ELSE IF ~IsSpace(Head(bs)) THEN FALSE
    ELSE IsBlank(Tail(bs))

TabWidth(currentPos) == 4 - (currentPos % 4)

\* util.IndentWidth: <<width, pos>> of the leading run of spaces and tabs.
RECURSIVE IndentWidthFrom(_, _, _, _)
IndentWidthFrom(bs, currentPos, i, width) ==
    IF i < Len(bs) /\ At(bs, i) = " " THEN IndentWidthFrom(bs, currentPos, i + 1, width + 1)
    ELSE IF i < Len(bs) /\ At(bs, i) = "\t"
         THEN IndentWidthFrom(bs, currentPos, i + 1, width + TabWidth(currentPos + width))
    ELSE <<width, i>>

IndentWidth(bs, currentPos) == IndentWidthFrom(bs, currentPos, 0, 0)

\* util.IndentPosition: <<pos, padding>>, or <<-1, -1>> when the line is
\* indented by less than width.
RECURSIVE IndentPositionFrom(_, _, _, _, _)
IndentPositionFrom(bs, currentPos, width, i, w) ==
    IF i < Len(bs) /\ At(bs, i) = "\t" /\ w < width
    THEN IndentPositionFrom(bs, currentPos, width, i + 1, w + TabWidth(currentPos + w))
    ELSE IF i < Len(bs) /\ At(bs, i) = " " /\ w < width
    THEN IndentPositionFrom(bs, currentPos, width, i + 1, w + 1)
    ELSE IF w >= width THEN <<i, w - width>> ELSE <<-1, -1>>

IndentPosition(bs, currentPos, width) ==
    IF width = 0 THEN <<0, 0>> ELSE IndentPositionFrom(bs, currentPos, width, 0, 0)

\* strconv.Atoi on a run of decimal digits (the error is discarded by the caller).
RECURSIVE AtoiFrom(_, _)
AtoiFrom(s, acc) ==
    IF Len(s) = 0 THEN acc
    ELSE AtoiFrom(Tail(s), acc * 10 + (IndexOf(Digits, Head(s)) - 1))

Atoi(s) == IF Len(s) = 0 \/ \E k \in DOMAIN s : ~IsNumeric(s[k]) THEN 0 ELSE AtoiFrom(s, 0)

\* strconv.Itoa for non-negative values, as a string.
RECURSIVE Itoa(_)
Itoa(n) ==
    IF n < 10 THEN Digits[n + 1]
    ELSE Itoa(n \div 10) \o Digits[(n % 10) + 1]

(***************************************************************************)
(* The marker scanner                                                      *)
(***************************************************************************)
notList == "notList"
bulletList == "bulletList"
orderedList == "orderedList"
orderedListFancy == "orderedListFancy"

RECURSIVE CountSpaces(_, _)
CountSpaces(line, i) ==
    IF i < Len(line) /\ At(line, i) = " " THEN CountSpaces(line, i + 1) ELSE i

RECURSIVE ScanDigits(_, _)
ScanDigits(line, i) ==
    IF i < Len(line) /\ IsNumeric(At(line, i)) THEN ScanDigits(line, i + 1) ELSE i

RECURSIVE ScanLetters(_, _, _)
ScanLetters(line, start, i) ==
    IF i < Len(line) /\ i - start < 6 /\ IsLetter(At(line, i))
    THEN ScanLetters(line, start, i + 1) ELSE i

IsDelimiter(line, i) == i < Len(line) /\ At(line, i) \in {".", ")"}

\* The tail of parseListItem without the test of the indent width after the
\* marker.
parseListItemTailGlued(line, ind, i, typ) ==
    IF i >= Len(line)
    THEN [m |-> <<0, ind, ind, i, -1, -1>>, typ |-> typ]
    ELSE [m |-> <<0, ind, ind, i, i,
                  IF At(line, Len(line) - 1) = "\n" /\ At(line, i) # "\n"
                  THEN Len(line) - 1 ELSE Len(line)>>,
          typ |-> typ]

\* The tail of parseListItem with the span (-1, -1) for a blank remainder.
parseListItemTailBlankSentinel(line, ind, i, typ) ==
    IF i < Len(line) /\ At(line, i) # "\n" /\ IndentWidth(Slice(line, i, Len(line)), 0)[1] = 0
    THEN [m |-> <<0, ind, ind, i, 0, 0>>, typ |-> notList]
    ELSE IF i >= Len(line) \/ IsBlank(Slice(line, i, Len(line)))
    THEN [m |-> <<0, ind, ind, i, -1, -1>>, typ |-> typ]
    ELSE [m |-> <<0, ind, ind, i, i,
                  IF At(line, Len(line) - 1) = "\n" /\ At(line, i) # "\n"
                  THEN Len(line) - 1 ELSE Len(line)>>,
          typ |-> typ]

\* The tail of parseListItem, from the byte after the marker.
parseListItemTail(line, ind, i, typ) ==
    IF i < Len(line) /\ At(line, i) # "\n" /\ IndentWidth(Slice(line, i, Len(line)), 0)[1] = 0
    THEN [m |-> <<0, ind, ind, i, 0, 0>>, typ |-> notList]
    ELSE IF i >= Len(line)
    THEN [m |-> <<0, ind, ind, i, -1, -1>>, typ |-> typ]
    ELSE [m |-> <<0, ind, ind, i, i,
                  IF At(line, Len(line) - 1) = "\n" /\ At(line, i) # "\n"
                  THEN Len(line) - 1 ELSE Len(line)>>,
          typ |-> typ]

Reject(ind, me) == [m |-> <<0, ind, ind, me, 0, 0>>, typ |-> notList]

\* parseListItem with a numeric marker of at most eight digits.
parseListItemEightDigits(line) ==
    LET i0 == CountSpaces(line, 0) IN
    IF i0 > 3 THEN [m |-> <<0, 0, 0, 0, 0, 0>>, typ |-> notList]
    ELSE IF i0 < Len(line) /\ At(line, i0) \in {"-", "*", "+"}
    THEN parseListItemTail(line, i0, i0 + 1, bulletList)
    ELSE IF i0 < Len(line)
    THEN IF At(line, i0) = "#"
         THEN IF IsDelimiter(line, i0 + 1)
              THEN parseListItemTail(line, i0, i0 + 2, orderedListFancy)
              ELSE Reject(i0, i0 + 1)
         ELSE LET nd == ScanDigits(line, i0) IN
              IF nd > i0 /\ nd - i0 <= 8
              THEN IF IsDelimiter(line, nd)
                   THEN parseListItemTail(line, i0, nd + 1, orderedList)
                   ELSE Reject(i0, nd)
              ELSE LET nl == ScanLetters(line, i0, i0) IN
                   IF nl > i0
                   THEN IF IsDelimiter(line, nl)
                        THEN parseListItemTail(line, i0, nl + 1, orderedListFancy)
                        ELSE Reject(i0, nl)
                   ELSE Reject(i0, 0)
    ELSE Reject(i0, 0)

\* parseListItem without the rejection of more than three leading spaces.
parseListItemAnyIndent(line) ==
    LET i0 == CountSpaces(line, 0) IN
    IF i0 < Len(line) /\ At(line, i0) \in {"-", "*", "+"}
    THEN parseListItemTail(line, i0, i0 + 1, bulletList)
    ELSE IF i0 < Len(line)
    THEN IF At(line, i0) = "#"
         THEN IF IsDelimiter(line, i0 + 1)
              THEN parseListItemTail(line, i0, i0 + 2, orderedListFancy)
              ELSE Reject(i0, i0 + 1)
         ELSE LET nd == ScanDigits(line, i0) IN
              IF nd > i0 /\ nd - i0 <= 9
              THEN IF IsDelimiter(line, nd)
                   THEN parseListItemTail(line, i0, nd + 1, orderedList)
                   ELSE Reject(i0, nd)
              ELSE LET nl == ScanLetters(line, i0, i0) IN
                   IF nl > i0
                   THEN IF IsDelimiter(line, nl)
                        THEN parseListItemTail(line, i0, nl + 1, orderedListFancy)
                        ELSE Reject(i0, nl)
                   ELSE Reject(i0, 0)
    ELSE Reject(i0, 0)

parseListItem(line) ==
    LET i0 == CountSpaces(line, 0) IN
    IF i0 > 3 THEN [m |-> <<0, 0, 0, 0, 0, 0>>, typ |-> notList]
    ELSE IF i0 < Len(line) /\ At(line, i0) \in {"-", "*", "+"}
    THEN parseListItemTail(line, i0, i0 + 1, bulletList)
    ELSE IF i0 < Len(line)
    THEN IF At(line, i0) = "#"
         THEN IF IsDelimiter(line, i0 + 1)
              THEN parseListItemTail(line, i0, i0 + 2, orderedListFancy)
              ELSE Reject(i0, i0 + 1)
         ELSE LET nd == ScanDigits(line, i0) IN
              IF nd > i0 /\ nd - i0 <= 9
              THEN IF IsDelimiter(line, nd)
                   THEN parseListItemTail(line, i0, nd + 1, orderedList)
                   ELSE Reject(i0, nd)
              ELSE LET nl == ScanLetters(line, i0, i0) IN
                   IF nl > i0
                   THEN IF IsDelimiter(line, nl)
                        THEN parseListItemTail(line, i0, nl + 1, orderedListFancy)
                        ELSE Reject(i0, nl)
                   ELSE Reject(i0, 0)
    ELSE Reject(i0, 0)

matchesListItem(source, strict) ==
    LET r == parseListItem(source) IN
    IF r.typ # notList /\ (~strict \/ (strict /\ r.m[2] < 4)) THEN r
    ELSE [m |-> r.m, typ |-> notList]

\* match[k] with Go's 0-based index
M(r, k) == r.m[k + 1]

calcListOffset(source, r) ==
    IF M(r, 4) < 0 \/ IsBlank(Slice(source, M(r, 4), Len(source))) THEN 1
    ELSE LET w == IndentWidth(Slice(source, M(r, 4), Len(source)), M(r, 4))[1] IN
         IF w > 4 THEN 1 ELSE w

\* The marker token, line[match[2] : match[3]-1]
MarkerToken(line, r) == Slice(line, M(r, 2), M(r, 3) - 1)

\* The delimiter or bullet byte, line[match[3]-1]
MarkerByte(line, r) == At(line, M(r, 3) - 1)

(***************************************************************************)
(* The marker classifiers                                                  *)
(***************************************************************************)
\* pow(base, exp), the loop of the source unrolled as a recursion on exp.
RECURSIVE pow(_, _)
pow(base, exp) == IF exp > 0 THEN base * pow(base, exp - 1) ELSE 1

\* The range loop of alphabeticToNumber over the lowered string, from byte
\* index i with the running result: 0 as soon as a byte is outside a..z.
RECURSIVE alphabeticLoop(_, _, _)
alphabeticLoop(s, i, result) ==
    IF i >= Len(s) THEN result
    ELSE IF At(s, i) \notin Range(LcLetters) THEN 0
    ELSE LET digit == IndexOf(LcLetters, At(s, i)) IN
         IF i = Len(s) - 1
         THEN alphabeticLoop(s, i + 1, result + digit)
         ELSE alphabeticLoop(s, i + 1, result + digit * pow(26, Len(s) - 1 - i))

\* alphabeticToNumber without the lowering of the string.
alphabeticToNumberCaseSensitive(s) ==
    IF Len(s) = 0 THEN 0 ELSE alphabeticLoop(s, 0, 0)

alphabeticToNumber(s) ==
    IF Len(s) = 0 THEN 0 ELSE alphabeticLoop(StringsToLower(s), 0, 0)

\* romannumeral.StringToInt, the library called by romanToNumber: the value
\* of an upper-case roman numeral in standard (subtractive) notation between
\* 1 and 3999, an error for every other non-empty string.  The value is
\* read right to left and the numeral is accepted when writing that value
\* back gives the same string.
NumeralValue(c) ==
    CASE c = "I" -> 1 [] c = "V" -> 5 [] c = "X" -> 10 [] c = "L" -> 50
      [] c = "C" -> 100 [] c = "D" -> 500 [] c = "M" -> 1000 [] OTHER -> 0

RomanUnits == << <<>>, <<"I">>, <<"I","I">>, <<"I","I","I">>, <<"I","V">>, <<"V">>,
                <<"V","I">>, <<"V","I","I">>, <<"V","I","I","I">>, <<"I","X">> >>

RomanTens == << <<>>, <<"X">>, <<"X","X">>, <<"X","X","X">>, <<"X","L">>, <<"L">>,
               <<"L","X">>, <<"L","X","X">>, <<"L","X","X","X">>, <<"X","C">> >>

RomanHundreds == << <<>>, <<"C">>, <<"C","C">>, <<"C","C","C">>, <<"C","D">>, <<"D">>,
                   <<"D","C">>, <<"D","C","C">>, <<"D","C","C","C">>, <<"C","M">> >>

RomanThousands == << <<>>, <<"M">>, <<"M","M">>, <<"M","M","M">> >>

RECURSIVE RomanSum(_, _)
RomanSum(s, i) ==
    IF i >= Len(s) THEN 0
    ELSE IF i + 1 < Len(s) /\ NumeralValue(At(s, i)) < NumeralValue(At(s, i + 1))
         THEN RomanSum(s, i + 1) - NumeralValue(At(s, i))
         ELSE RomanSum(s, i + 1) + NumeralValue(At(s, i))

\* The standard numeral of n, 1 <= n <= 3999.
IntToRoman(n) ==
    RomanThousands[(n \div 1000) + 1] \o RomanHundreds[((n \div 100) % 10) + 1]
      \o RomanTens[((n \div 10) % 10) + 1] \o RomanUnits[(n % 10) + 1]

StringToInt(s) ==
    LET v == RomanSum(s, 0) IN
    IF \A k \in DOMAIN s : NumeralValue(s[k]) > 0
       /\ v >= 1 /\ v <= 3999 /\ IntToRoman(v) = s
    THEN [num |-> v, err |-> FALSE]
    ELSE [num |-> 0, err |-> TRUE]

\* romanToNumber without the test of the first byte.
romanToNumberAnyFirst(s) ==
    IF Len(s) = 0 THEN [num |-> 0, ok |-> FALSE]
    ELSE LET r == StringToInt(StringsToUpper(s)) IN
         IF r.err THEN [num |-> 0, ok |-> FALSE]
         ELSE [num |-> r.num, ok |-> TRUE]

romanToNumber(s) ==
    IF Len(s) = 0 THEN [num |-> 0, ok |-> FALSE]
    ELSE IF At(StringsToLower(s), 0) # "i" THEN [num |-> 0, ok |-> FALSE]
    ELSE LET r == StringToInt(StringsToUpper(s)) IN
         IF r.err THEN [num |-> 0, ok |-> FALSE]
         ELSE [num |-> r.num, ok |-> TRUE]

\* getListTypeFromMarker: <<HTML type, CSS class>>
getListTypeFromMarker(markerBytes, typ) ==
    IF typ = orderedList THEN <<"1", "fl-num">>
    ELSE IF typ = orderedListFancy /\ markerBytes = <<"#">> THEN <<"1", "fl-num">>
    ELSE IF typ = orderedListFancy /\ Len(markerBytes) > 0
    THEN IF At(markerBytes, 0) \in {"i", "I"} /\ romanToNumber(markerBytes).ok
         THEN IF IsLower(At(markerBytes, 0)) THEN <<"i", "fl-lcroman">>
              ELSE <<"I", "fl-ucroman">>
         ELSE IF IsLower(At(markerBytes, 0)) THEN <<"a", "fl-lcalpha">>
              ELSE <<"A", "fl-ucalpha">>
    ELSE <<"1", "fl-num">>

(***************************************************************************)
(* The block tree, the parser context and the reader                       *)
(***************************************************************************)
VARIABLES
    nodes,      \* the block tree: node id -> node; node 1 is the Document
    opened,     \* pc.OpenedBlocks(): the ids of the open blocks, outermost first
    skipListParserKey,             \* pc.Get(skipListParserKey) != nil
    emptyListItemWithBlankLines,   \* pc.Get(emptyListItemWithBlankLines) != nil
    line,       \* the line the reader is on (with its newline), <<>> between lines
    rpos,       \* the reader's position in that line, in bytes
    nread,      \* the number of lines read so far
    ctl,        \* the position of the engine's line loop
    calls,      \* the parser callbacks made on the current line, in order
    walk,       \* the renderer's pending visits, <<node, entering>>
    out,        \* the bytes written so far, one element per write
    wrote,      \* the writes of the most recent renderer call
    tok,        \* the marker token typed so far (classifier runs)
    fn          \* the results of the most recent classifier run

vars == <<nodes, opened, skipListParserKey, emptyListItemWithBlankLines, line, rpos,
          nread, ctl, calls, walk, out, wrote, tok, fn>>

parseVars == <<nodes, opened, skipListParserKey, emptyListItemWithBlankLines, line, rpos,
               nread, ctl, calls>>

renderVars == <<walk, out, wrote>>

fnVars == <<tok, fn>>

Root == 1

\* ast.NewList / ast.NewListItem / ast.NewParagraph with the fields the
\* parsers and renderers read.
NewNode(kind, parent) ==
    [kind |-> kind, parent |-> parent, children |-> <<>>, marker |-> "",
     start |-> 0, attrs |-> <<>>, isTight |-> TRUE, offset |-> 0,
     blankPrev |-> FALSE, lines |-> <<>>]

IsOrdered(n) == n.marker \in {".", ")"}

\* ast.List.CanContinue with the marker byte compared for bullet lists only.
CanContinueAnyDelimiter(n, marker, isOrdered) ==
    isOrdered = IsOrdered(n) /\ (isOrdered \/ marker = n.marker)

\* ast.List.CanContinue
CanContinue(n, marker, isOrdered) == marker = n.marker /\ isOrdered = IsOrdered(n)

\* ast.Node.AttributeString: <<found, value>>
AttributeString(attrs, name) ==
    IF \E k \in DOMAIN attrs : attrs[k].name = name
    THEN <<TRUE, attrs[CHOOSE k \in DOMAIN attrs : attrs[k].name = name].value>>
    ELSE <<FALSE, "">>

\* ast.Node.SetAttribute
SetAttribute(attrs, name, value) ==
    IF \E k \in DOMAIN attrs : attrs[k].name = name
    THEN [k \in DOMAIN attrs |-> IF attrs[k].name = name
                                 THEN [name |-> name, value |-> value] ELSE attrs[k]]
    ELSE Append(attrs, [name |-> name, value |-> value])

ChildCount(ns, id) == Len(ns[id].children)

LastChild(ns, id) == ns[id].children[Len(ns[id].children)]

lastOffset(ns, id) ==
    IF ChildCount(ns, id) > 0 THEN ns[LastChild(ns, id)].offset ELSE 0

LastOpenedBlock == IF Len(opened) = 0 THEN 0 ELSE opened[Len(opened)]

\* reader.PeekLine(): the rest of the current line
PeekLine == Slice(line, rpos, Len(line))

\* reader.LineOffset(): the column of the reader (no tabs before it)
LineOffset == rpos

(***************************************************************************)
(* fancyListParser                                                         *)
(***************************************************************************)
Trigger == {"-", "+", "*", "#"} \cup Range(Digits) \cup Range(LcLetters) \cup Range(UcLetters)

NoList == [node |-> FALSE, start |-> -1, fltype |-> "", marker |-> ""]

\* The switch of fancyListParser.Open on the marker's kind: the start value
\* and the type attribute (fltype "" is the nil pointer), or a rejection.
OpenStart(number, typ) ==
    IF typ = orderedList
    THEN [reject |-> FALSE, start |-> Atoi(number), fltype |-> ""]
    ELSE IF typ = orderedListFancy
    THEN IF number = <<"#">>
         THEN [reject |-> FALSE, start |-> 1, fltype |-> ""]
         ELSE IF Len(number) > 0 /\ At(number, 0) \in {"i", "I"}
         THEN LET rn == romanToNumber(number) IN
              IF rn.ok
              THEN [reject |-> FALSE, start |-> rn.num,
                    fltype |-> IF IsLower(At(number, 0)) THEN "i" ELSE "I"]
              ELSE [reject |-> TRUE, start |-> -1, fltype |-> ""]
         ELSE IF IsLetter(At(number, 0))
         THEN LET a == alphabeticToNumber(number) IN
              IF a = 0
              THEN [reject |-> TRUE, start |-> 0, fltype |-> ""]
              ELSE [reject |-> FALSE, start |-> a,
                    fltype |-> IF IsLower(At(number, 0)) THEN "a" ELSE "A"]
         ELSE [reject |-> FALSE, start |-> -1, fltype |-> ""]
    ELSE [reject |-> FALSE, start |-> -1, fltype |-> ""]

\* The paragraph-interruption guard with the start rule applied inside
\* list items too.
CannotInterruptNested(lastKind, lastParent, parent, parentKind, typ, start, peek, r) ==
    /\ lastKind = "Paragraph" /\ lastParent = parent
    /\ \/ typ \in {orderedList, orderedListFancy} /\ start # 1
       \/ M(r, 4) < 0
       \/ IsBlank(Slice(peek, M(r, 4), M(r, 5)))

\* The paragraph-interruption guard without the rule on empty items.
CannotInterruptStartOnly(lastKind, lastParent, parent, parentKind, typ, start, peek, r) ==
    /\ lastKind = "Paragraph" /\ lastParent = parent
    /\ parentKind # "ListItem" /\ typ \in {orderedList, orderedListFancy} /\ start # 1

\* The paragraph-interruption guard of fancyListParser.Open.
CannotInterrupt(lastKind, lastParent, parent, parentKind, typ, start, peek, r) ==
    /\ lastKind = "Paragraph" /\ lastParent = parent
    /\ \/ parentKind # "ListItem" /\ typ \in {orderedList, orderedListFancy} /\ start # 1
       \/ M(r, 4) < 0
       \/ IsBlank(Slice(peek, M(r, 4), M(r, 5)))

\* fancyListParser.Open with the start stored without the test start > -1.
fancyListParserOpenSentinel(lastKind, lastParent, parent, parentKind, peek) ==
    LET r == matchesListItem(peek, TRUE) IN
    IF r.typ = notList THEN NoList
    ELSE LET o == OpenStart(MarkerToken(peek, r), r.typ) IN
         IF o.reject THEN NoList
         ELSE IF CannotInterrupt(lastKind, lastParent, parent, parentKind, r.typ, o.start, peek, r)
         THEN NoList
         ELSE [node |-> TRUE, start |-> o.start,
               fltype |-> o.fltype, marker |-> MarkerByte(peek, r)]

\* fancyListParser.Open after the skip test: the new list, or no node.
fancyListParserOpen(lastKind, lastParent, parent, parentKind, peek) ==
    LET r == matchesListItem(peek, TRUE) IN
    IF r.typ = notList THEN NoList
    ELSE LET o == OpenStart(MarkerToken(peek, r), r.typ) IN
         IF o.reject THEN NoList
         ELSE IF CannotInterrupt(lastKind, lastParent, parent, parentKind, r.typ, o.start, peek, r)
         THEN NoList
         ELSE [node |-> TRUE, start |-> IF o.start > -1 THEN o.start ELSE 0,
               fltype |-> o.fltype, marker |-> MarkerByte(peek, r)]

\* The current type of a list with lower-case alphabetic as the default.
currentTypeDefaultAlpha(list) ==
    IF AttributeString(list.attrs, "type")[1] THEN AttributeString(list.attrs, "type")[2]
    ELSE "a"

\* The current type of a list as fancyListParser.Continue reads it.
currentType(list) ==
    IF AttributeString(list.attrs, "type")[1] THEN AttributeString(list.attrs, "type")[2]
    ELSE "1"

\* The expected type read from the marker alone, without the rule for a
\* single "i" or "I" in an alphabetic list.
expectedTypeFromMarker(markerBytes, typ, current) ==
    getListTypeFromMarker(markerBytes, typ)[1]

\* The expected type of a marker other than "#" in fancyListParser.Continue.
expectedType(markerBytes, typ, current) ==
    IF markerBytes = <<"i">> \/ markerBytes = <<"I">>
    THEN IF (current = "a" /\ markerBytes = <<"i">>) \/ (current = "A" /\ markerBytes = <<"I">>)
         THEN current
         ELSE IF markerBytes = <<"i">> THEN "i" ELSE "I"
    ELSE getListTypeFromMarker(markerBytes, typ)[1]

\* The type check applied to every marker, "#" included.
typeChangedHashIncluded(list, markerBytes, typ) ==
    expectedType(markerBytes, typ, currentType(list)) # currentType(list)

\* fancyListParser.Continue without the type check on an ordered marker.
typeChangedNever(list, markerBytes, typ) == FALSE

\* The type check of fancyListParser.Continue on an ordered marker: TRUE
\* when the list must close.
typeChanged(list, markerBytes, typ) ==
    /\ markerBytes # <<"#">>
    /\ expectedType(markerBytes, typ, currentType(list)) # currentType(list)

\* fancyListParser.Continue without the test of the empty-item flag on a
\* line that is no item of the list.
fancyListParserContinueNoPending(list, peek, lineOffset, offset, lastIsEmpty, emptyFlag) ==
    IF IsBlank(peek)
    THEN [ret |-> "continue", setEmpty |-> lastIsEmpty]
    ELSE LET indent == IndentWidth(peek, lineOffset)[1]
             r == matchesListItem(peek, FALSE)
             ordered == r.typ \in {orderedList, orderedListFancy}
         IN
         IF (indent < offset \/ lastIsEmpty) /\ indent < 4
            /\ r.typ # notList /\ M(r, 1) - offset < 4
         THEN IF ~CanContinue(list, MarkerByte(peek, r), ordered)
              THEN [ret |-> "close", setEmpty |-> FALSE]
              ELSE IF ordered /\ typeChanged(list, MarkerToken(peek, r), r.typ)
              THEN [ret |-> "close", setEmpty |-> FALSE]
              ELSE [ret |-> "continue", setEmpty |-> FALSE]
         ELSE IF (indent < offset \/ lastIsEmpty) /\ ~lastIsEmpty
         THEN [ret |-> "close", setEmpty |-> FALSE]
         ELSE IF lastIsEmpty /\ indent < offset
         THEN [ret |-> "close", setEmpty |-> FALSE]
         ELSE [ret |-> "continue", setEmpty |-> FALSE]

\* fancyListParser.Continue with the empty-item flag tested before a
\* compatible marker line is accepted.
fancyListParserContinuePendingFirst(list, peek, lineOffset, offset, lastIsEmpty, emptyFlag) ==
    IF IsBlank(peek)
    THEN [ret |-> "continue", setEmpty |-> lastIsEmpty]
    ELSE LET indent == IndentWidth(peek, lineOffset)[1]
             r == matchesListItem(peek, FALSE)
             ordered == r.typ \in {orderedList, orderedListFancy}
         IN
         IF (indent < offset \/ lastIsEmpty) /\ indent < 4
            /\ r.typ # notList /\ M(r, 1) - offset < 4
         THEN IF ~CanContinue(list, MarkerByte(peek, r), ordered)
              THEN [ret |-> "close", setEmpty |-> FALSE]
              ELSE IF ordered /\ typeChanged(list, MarkerToken(peek, r), r.typ)
              THEN [ret |-> "close", setEmpty |-> FALSE]
              ELSE IF emptyFlag
              THEN [ret |-> "close", setEmpty |-> FALSE]
              ELSE [ret |-> "continue", setEmpty |-> FALSE]
         ELSE IF (indent < offset \/ lastIsEmpty) /\ ~lastIsEmpty
         THEN [ret |-> "close", setEmpty |-> FALSE]
         ELSE IF lastIsEmpty /\ indent < offset
         THEN [ret |-> "close", setEmpty |-> FALSE]
         ELSE IF emptyFlag
         THEN [ret |-> "close", setEmpty |-> FALSE]
         ELSE [ret |-> "continue", setEmpty |-> FALSE]

\* fancyListParser.Continue: the returned state and whether the
\* empty-item flag is set.
fancyListParserContinue(list, peek, lineOffset, offset, lastIsEmpty, emptyFlag) ==
    IF IsBlank(peek)
    THEN [ret |-> "continue", setEmpty |-> lastIsEmpty]
    ELSE LET indent == IndentWidth(peek, lineOffset)[1]
             r == matchesListItem(peek, FALSE)
             ordered == r.typ \in {orderedList, orderedListFancy}
         IN
         IF (indent < offset \/ lastIsEmpty) /\ indent < 4
            /\ r.typ # notList /\ M(r, 1) - offset < 4
         THEN IF ~CanContinue(list, MarkerByte(peek, r), ordered)
              THEN [ret |-> "close", setEmpty |-> FALSE]
              ELSE IF ordered /\ typeChanged(list, MarkerToken(peek, r), r.typ)
              THEN [ret |-> "close", setEmpty |-> FALSE]
              ELSE [ret |-> "continue", setEmpty |-> FALSE]
         ELSE IF (indent < offset \/ lastIsEmpty) /\ ~lastIsEmpty
         THEN [ret |-> "close", setEmpty |-> FALSE]
         ELSE IF lastIsEmpty /\ indent < offset
         THEN [ret |-> "close", setEmpty |-> FALSE]
         ELSE IF emptyFlag
         THEN [ret |-> "close", setEmpty |-> FALSE]
         ELSE [ret |-> "continue", setEmpty |-> FALSE]

(***************************************************************************)
(* fancyListItemParser                                                     *)
(***************************************************************************)
\* The value of a new item counted from 1, whatever the start of the list.
itemNumberFromOne(list) == Len(list.children) + 1

\* The value of a new item of an ordered list.
itemNumber(list) == Len(list.children) + list.start

\* fancyListItemParser.Open with every marker indented past the content
\* column of the last item rejected.
fancyListItemParserOpenNoIndent(list, offset, peek) ==
    LET r == matchesListItem(peek, FALSE) IN
    IF r.typ = notList \/ M(r, 1) - offset > 0
    THEN [node |-> FALSE, offset |-> 0, attrs |-> <<>>, hasChildren |-> FALSE, advance |-> 0]
    ELSE LET itemOffset == calcListOffset(peek, r)
             attrs == IF r.typ \in {orderedList, orderedListFancy}
                      THEN SetAttribute(<<>>, "value", Itoa(itemNumber(list)))
                      ELSE <<>>
         IN
         IF M(r, 4) < 0 \/ IsBlank(Slice(peek, M(r, 4), M(r, 5)))
         THEN [node |-> TRUE, offset |-> M(r, 3) + itemOffset, attrs |-> attrs,
               hasChildren |-> FALSE, advance |-> 0]
         ELSE [node |-> TRUE, offset |-> M(r, 3) + itemOffset, attrs |-> attrs,
               hasChildren |-> TRUE,
               advance |-> M(r, 3)
                   + IndentPosition(Slice(peek, M(r, 4), Len(peek)), M(r, 4), itemOffset)[1]]

\* fancyListItemParser.Open under a list: the new item, whether it has
\* children on this line and how far the reader advances.
fancyListItemParserOpen(list, offset, peek) ==
    LET r == matchesListItem(peek, FALSE) IN
    IF r.typ = notList \/ M(r, 1) - offset > 3
    THEN [node |-> FALSE, offset |-> 0, attrs |-> <<>>, hasChildren |-> FALSE, advance |-> 0]
    ELSE LET itemOffset == calcListOffset(peek, r)
             attrs == IF r.typ \in {orderedList, orderedListFancy}
                      THEN SetAttribute(<<>>, "value", Itoa(itemNumber(list)))
                      ELSE <<>>
         IN
         IF M(r, 4) < 0 \/ IsBlank(Slice(peek, M(r, 4), M(r, 5)))
         THEN [node |-> TRUE, offset |-> M(r, 3) + itemOffset, attrs |-> attrs,
               hasChildren |-> FALSE, advance |-> 0]
         ELSE [node |-> TRUE, offset |-> M(r, 3) + itemOffset, attrs |-> attrs,
               hasChildren |-> TRUE,
               advance |-> M(r, 3)
                   + IndentPosition(Slice(peek, M(r, 4), Len(peek)), M(r, 4), itemOffset)[1]]

\* reader.AdvanceToEOL: the position of the line's newline (or its end)
EOLAdvance(peek) ==
    IF Len(peek) > 0 /\ At(peek, Len(peek) - 1) = "\n" THEN Len(peek) - 1 ELSE Len(peek)

\* fancyListItemParser.Continue
fancyListItemParserContinue(peek, lineOffset, offset, childCount, emptyFlag) ==
    IF IsBlank(peek)
    THEN [ret |-> "continue", setSkip |-> FALSE, advance |-> EOLAdvance(peek)]
    ELSE LET isEmpty == childCount = 0 /\ emptyFlag
             indent == IndentWidth(peek, lineOffset)[1]
         IN
         IF (isEmpty \/ indent < offset) /\ indent < 4
            /\ matchesListItem(peek, TRUE).typ # notList
         THEN [ret |-> "close", setSkip |-> TRUE, advance |-> 0]
         ELSE IF (isEmpty \/ indent < offset) /\ indent < 4 /\ ~isEmpty
         THEN [ret |-> "close", setSkip |-> FALSE, advance |-> 0]
         ELSE [ret |-> "continue", setSkip |-> FALSE,
               advance |-> IndentPosition(peek, lineOffset, offset)[1]]

(***************************************************************************)
(* The host engine's line loop (parseBlocks, openBlocks, closeBlocks) for  *)
(* documents made of lists, list items and paragraphs                      *)
(***************************************************************************)
Idle ==
    [phase |-> "line", i |-> 0, parent |-> 0, k |-> 0, result |-> "",
     continuable |-> FALSE, blank |-> FALSE, mode |-> "", from |-> 0, to |-> 0,
     j |-> 0, eof |-> FALSE]

\* The block parsers in priority order: 1 fancyListParser (100),
\* 2 fancyListItemParser (101), 3 the paragraph parser; 4 stands for the
\* end of the parser list.
CanInterruptParagraph(k) == k \in {1, 2}

CanAcceptIndentedLine(k) == FALSE

BlockParsers(peek, off) ==
    IF Len(peek) = 0 \/ At(peek, 0) = "\n" THEN {}
    ELSE LET pos == IndentWidth(peek, off)[2] IN
         IF pos < Len(peek) /\ At(peek, pos) \in Trigger THEN {1, 2, 3} ELSE {3}

NextParser(c, from, peek, off) ==
    LET w == IndentWidth(peek, off)[1]
        cands == {k \in BlockParsers(peek, off) :
                    /\ k >= from
                    /\ ~(c.continuable /\ c.result = "noBlocksOpened" /\ ~CanInterruptParagraph(k))
                    /\ ~(w > 3 /\ ~CanAcceptIndentedLine(k))}
    IN IF cands = {} THEN 4 ELSE CHOOSE k \in cands : \A k2 \in cands : k <= k2

\* parseBlocks after openBlocks has returned
AfterOpen(c) ==
    IF c.mode = "closing" /\ c.result # "paragraphContinuation"
    THEN [c EXCEPT !.phase = "close", !.j = c.from]
    ELSE Idle

\* openBlocks: the next parser to try from index from, the paragraph
\* continuation when none is left, or the return to parseBlocks.
OpenNext(c, from, peek, off) ==
    LET k == NextParser(c, from, peek, off) IN
    IF k < 4 THEN [c EXCEPT !.k = k]
    ELSE IF c.result = "noBlocksOpened" /\ c.continuable THEN [c EXCEPT !.k = 4]
    ELSE AfterOpen(c)

\* The entry of openBlocks(parent, blankLine)
OpenEnter(ns, ops, parent, blank, mode, from, to, peek, off) ==
    OpenNext([Idle EXCEPT !.phase = "open", !.parent = parent, !.result = "noBlocksOpened",
                          !.continuable = (Len(ops) > 0 /\ ns[ops[Len(ops)]].kind = "Paragraph"),
                          !.blank = blank, !.mode = mode, !.from = from, !.to = to],
             1, peek, off)

ThisParent(ops, i) == IF i = 1 THEN Root ELSE ops[i - 1]

\* The loop of parseBlocks over the open blocks, at index i
ContAt(ns, ops, i, blank, peek, off) ==
    IF ns[ops[i]].kind = "Paragraph"
    THEN OpenEnter(ns, ops, ThisParent(ops, i), blank, "closing", Len(ops), i, peek, off)
    ELSE [Idle EXCEPT !.phase = "cont", !.i = i, !.blank = blank]

\* After Continue of the open block i returned ret
AfterContinue(ns, ops, i, blank, ret, peek, off) ==
    IF ret = "continue"
    THEN IF i = Len(ops)
         THEN OpenEnter(ns, ops, ops[i], blank, "child", 0, 0, peek, off)
         ELSE ContAt(ns, ops, i + 1, blank, peek, off)
    ELSE OpenEnter(ns, ops, ThisParent(ops, i), blank, "closing", Len(ops), i, peek, off)

\* parent.AppendChild(parent, node)
AppendChild(ns, parent, n) ==
    [Append(ns, n) EXCEPT ![parent].children = Append(@, Len(ns) + 1)]

\* The record of one callback: its receiver or result node, the parent it
\* was given, what it returned, and what it could read when it was called
\* (the peeked line, the reader position, the two context flags, the kind
\* and the parent of the last opened block and, for a list, lastOffset and
\* whether its last item was empty).
Call(cb, node, parent, ret) ==
    LET isList == node \in DOMAIN nodes /\ nodes[node].kind = "List" IN
    [cb |-> cb, node |-> node, parent |-> parent, ret |-> ret, peek |-> PeekLine,
     rpos |-> rpos, flag |-> emptyListItemWithBlankLines, skip |-> skipListParserKey,
     lastKind |-> IF LastOpenedBlock = 0 THEN "none" ELSE nodes[LastOpenedBlock].kind,
     lastParent |-> IF LastOpenedBlock = 0 THEN 0 ELSE nodes[LastOpenedBlock].parent,
     offset |-> IF isList THEN lastOffset(nodes, node) ELSE 0,
     start |-> IF isList THEN nodes[node].start ELSE 0,
     attrs |-> IF isList THEN nodes[node].attrs ELSE <<>>,
     lastIsEmpty |-> isList /\ ChildCount(nodes, LastChild(nodes, node)) = 0]

(***************************************************************************)
(* Input lines                                                             *)
(***************************************************************************)
MaxLines == 3

\* A marker line: indent spaces, the token, the delimiter, one space, "x".
MkLine(indent, token, delim) ==
    [k \in 1..indent |-> " "] \o token \o <<delim, " ", "x", "\n">>

LineSet ==
    { MkLine(0, t, ".") : t \in { <<"1">>, <<"2">>, <<"a">>, <<"A">>, <<"i">>, <<"I">>,
                                  <<"i","i">>, <<"v">>, <<"i","f">>, <<"#">> } }
    \cup { MkLine(0, <<"#">>, ")"), MkLine(3, <<"#">>, "."), <<"-", " ", "x", "\n">> }

(***************************************************************************)
(* The parse of one document, line by line                                 *)
(***************************************************************************)
NoFn == [ran |-> FALSE]

NoWrite == [node |-> 0, entering |-> FALSE, text |-> <<>>]

Init ==
    /\ nodes = <<NewNode("Document", 0)>>
    /\ opened = <<>>
    /\ skipListParserKey = FALSE
    /\ emptyListItemWithBlankLines = FALSE
    /\ line = <<>>
    /\ rpos = 0
    /\ nread = 0
    /\ ctl = Idle
    /\ calls = <<>>
    /\ walk = <<>>
    /\ out = <<>>
    /\ wrote = NoWrite
    /\ tok = <<>>
    /\ fn = NoFn

\* The reader moves to the next line and parseBlocks visits the open blocks
\* (or, with none open, skips blank lines and opens blocks under the root).
NextLine(l) ==
    /\ ctl.phase = "line"
    /\ nread < MaxLines
    /\ line' = l
    /\ rpos' = 0
    /\ nread' = nread + 1
    /\ calls' = <<>>
    /\ ctl' = IF Len(opened) = 0
              THEN IF IsBlank(l) THEN Idle
                   ELSE OpenEnter(nodes, opened, Root, TRUE, "top", 0, 0, l, 0)
              ELSE ContAt(nodes, opened, 1, IsBlank(line), l, 0)
    /\ UNCHANGED <<nodes, opened, skipListParserKey, emptyListItemWithBlankLines>>
    /\ UNCHANGED renderVars
    /\ UNCHANGED fnVars

\* The reader is at the end of the source: every open block is closed.
EndOfInput ==
    /\ ctl.phase = "line"
    /\ ctl' = IF Len(opened) = 0 THEN [Idle EXCEPT !.phase = "parsed"]
              ELSE [Idle EXCEPT !.phase = "close", !.from = Len(opened), !.to = 1,
                                !.j = Len(opened), !.eof = TRUE]
    /\ line' = <<>>
    /\ rpos' = 0
    /\ calls' = <<>>
    /\ UNCHANGED <<nodes, opened, skipListParserKey, emptyListItemWithBlankLines, nread>>
    /\ UNCHANGED renderVars
    /\ UNCHANGED fnVars

fancyListParser_Continue ==
    /\ ctl.phase = "cont"
    /\ nodes[opened[ctl.i]].kind = "List"
    /\ \E id \in {opened[ctl.i]} :
       \E res \in {fancyListParserContinue(nodes[id], PeekLine, LineOffset, lastOffset(nodes, id),
                                           ChildCount(nodes, LastChild(nodes, id)) = 0,
                                           emptyListItemWithBlankLines)} :
          /\ emptyListItemWithBlankLines' = (emptyListItemWithBlankLines \/ res.setEmpty)
          /\ ctl' = AfterContinue(nodes, opened, ctl.i, ctl.blank, res.ret, PeekLine, LineOffset)
          /\ calls' = Append(calls, Call("fancyListParser.Continue", id, nodes[id].parent, res.ret))
    /\ UNCHANGED <<nodes, opened, skipListParserKey, line, rpos, nread>>
    /\ UNCHANGED renderVars
    /\ UNCHANGED fnVars

fancyListItemParser_Continue ==
    /\ ctl.phase = "cont"
    /\ nodes[opened[ctl.i]].kind = "ListItem"
    /\ \E id \in {opened[ctl.i]} :
       \E res \in {fancyListItemParserContinue(PeekLine, LineOffset,
                                               lastOffset(nodes, nodes[id].parent),
                                               ChildCount(nodes, id),
                                               emptyListItemWithBlankLines)} :
       \E np \in {IF res.ret = "continue" THEN rpos + res.advance ELSE rpos} :
          /\ skipListParserKey' = (skipListParserKey \/ res.setSkip)
          /\ rpos' = np
          /\ ctl' = AfterContinue(nodes, opened, ctl.i, ctl.blank, res.ret,
                                  Slice(line, np, Len(line)), np)
          /\ calls' = Append(calls, Call("fancyListItemParser.Continue", id, nodes[id].parent, res.ret))
    /\ UNCHANGED <<nodes, opened, emptyListItemWithBlankLines, line, nread>>
    /\ UNCHANGED renderVars
    /\ UNCHANGED fnVars

\* fancyListParser.Open with the reader advanced over the marker it scanned.
fancyListParser_OpenConsuming ==
    /\ ctl.phase = "open"
    /\ ctl.k = 1
    /\ LET last == LastOpenedBlock
           lastKind == IF last = 0 THEN "none" ELSE nodes[last].kind
           lastParent == IF last = 0 THEN 0 ELSE nodes[last].parent
           skip == lastKind = "List" \/ skipListParserKey
           id == Len(nodes) + 1
       IN \E res \in {IF skip THEN NoList
                      ELSE fancyListParserOpen(lastKind, lastParent, ctl.parent,
                                               nodes[ctl.parent].kind, PeekLine)} :
          /\ skipListParserKey' = IF skip THEN FALSE ELSE skipListParserKey
          /\ IF res.node
             THEN /\ nodes' = AppendChild(nodes, ctl.parent,
                                         [NewNode("List", ctl.parent) EXCEPT
                                             !.marker = res.marker, !.start = res.start,
                                             !.blankPrev = ctl.blank,
                                             !.attrs = IF res.fltype # ""
                                                       THEN SetAttribute(<<>>, "type", res.fltype)
                                                       ELSE <<>>])
                  /\ opened' = Append(opened, id)
                  /\ emptyListItemWithBlankLines' = FALSE
                  /\ ctl' = OpenNext([ctl EXCEPT !.parent = id, !.result = "newBlocksOpened"],
                                     1, PeekLine, LineOffset)
                  /\ calls' = Append(calls, Call("fancyListParser.Open", id, ctl.parent, "node"))
             ELSE /\ UNCHANGED <<nodes, opened, emptyListItemWithBlankLines>>
                  /\ ctl' = OpenNext(ctl, 2, PeekLine, LineOffset)
                  /\ calls' = Append(calls, Call("fancyListParser.Open", 0, ctl.parent, "nil"))
    /\ rpos' = rpos + M(matchesListItem(PeekLine, TRUE), 3)
    /\ UNCHANGED <<line, nread>>
    /\ UNCHANGED renderVars
    /\ UNCHANGED fnVars
fancyListParser_Open ==
    /\ ctl.phase = "open"
    /\ ctl.k = 1
    /\ LET last == LastOpenedBlock
           lastKind == IF last = 0 THEN "none" ELSE nodes[last].kind
           lastParent == IF last = 0 THEN 0 ELSE nodes[last].parent
           skip == lastKind = "List" \/ skipListParserKey
           id == Len(nodes) + 1
       IN \E res \in {IF skip THEN NoList
                      ELSE fancyListParserOpen(lastKind, lastParent, ctl.parent,
                                               nodes[ctl.parent].kind, PeekLine)} :
          /\ skipListParserKey' = IF skip THEN FALSE ELSE skipListParserKey
          /\ IF res.node
             THEN /\ nodes' = AppendChild(nodes, ctl.parent,
                                         [NewNode("List", ctl.parent) EXCEPT
                                             !.marker = res.marker, !.start = res.start,
                                             !.blankPrev = ctl.blank,
                                             !.attrs = IF res.fltype # ""
                                                       THEN SetAttribute(<<>>, "type", res.fltype)
                                                       ELSE <<>>])
                  /\ opened' = Append(opened, id)
                  /\ emptyListItemWithBlankLines' = FALSE
                  /\ ctl' = OpenNext([ctl EXCEPT !.parent = id, !.result = "newBlocksOpened"],
                                     1, PeekLine, LineOffset)
                  /\ calls' = Append(calls, Call("fancyListParser.Open", id, ctl.parent, "node"))
             ELSE /\ UNCHANGED <<nodes, opened, emptyListItemWithBlankLines>>
                  /\ ctl' = OpenNext(ctl, 2, PeekLine, LineOffset)
                  /\ calls' = Append(calls, Call("fancyListParser.Open", 0, ctl.parent, "nil"))
    /\ UNCHANGED <<line, rpos, nread>>
    /\ UNCHANGED renderVars
    /\ UNCHANGED fnVars

fancyListItemParser_Open ==
    /\ ctl.phase = "open"
    /\ ctl.k = 2
    /\ \E res \in {IF nodes[ctl.parent].kind = "List"
                    THEN fancyListItemParserOpen(nodes[ctl.parent],
                                                 lastOffset(nodes, ctl.parent), PeekLine)
                    ELSE [node |-> FALSE, offset |-> 0, attrs |-> <<>>,
                          hasChildren |-> FALSE, advance |-> 0]} :
       \E np \in {rpos + res.advance} :
       LET id == Len(nodes) + 1
           c == [ctl EXCEPT !.parent = id, !.result = "newBlocksOpened"]
       IN IF res.node
          THEN /\ nodes' = AppendChild(nodes, ctl.parent,
                                      [NewNode("ListItem", ctl.parent) EXCEPT
                                          !.offset = res.offset, !.attrs = res.attrs,
                                          !.blankPrev = ctl.blank])
               /\ opened' = Append(opened, id)
               /\ emptyListItemWithBlankLines' = FALSE
               /\ rpos' = np
               /\ ctl' = IF res.hasChildren
                         THEN OpenNext(c, 1, Slice(line, np, Len(line)), np)
                         ELSE AfterOpen(c)
               /\ calls' = Append(calls, Call("fancyListItemParser.Open", id, ctl.parent, "node"))
          ELSE /\ UNCHANGED <<nodes, opened, emptyListItemWithBlankLines, rpos>>
               /\ ctl' = OpenNext(ctl, 3, PeekLine, LineOffset)
               /\ calls' = Append(calls, Call("fancyListItemParser.Open", 0, ctl.parent, "nil"))
    /\ UNCHANGED <<skipListParserKey, line, nread>>
    /\ UNCHANGED renderVars
    /\ UNCHANGED fnVars

\* segment.TrimLeftSpace
RECURSIVE TrimLeftSpace(_)
TrimLeftSpace(bs) ==
    IF Len(bs) > 0 /\ IsSpace(Head(bs)) THEN TrimLeftSpace(Tail(bs)) ELSE bs

\* The host's paragraph parser, Open
paragraph_Open ==
    /\ ctl.phase = "open"
    /\ ctl.k = 3
    /\ LET seg == TrimLeftSpace(PeekLine)
           id == Len(nodes) + 1
           n == [NewNode("Paragraph", ctl.parent) EXCEPT
                    !.lines = <<seg>>, !.blankPrev = ctl.blank]
       IN IF Len(seg) > 0
          THEN /\ nodes' = AppendChild(nodes, ctl.parent, n)
               /\ opened' = Append(opened, id)
               /\ rpos' = Len(line) - 1
               /\ ctl' = AfterOpen([ctl EXCEPT !.result = "newBlocksOpened"])
               /\ calls' = Append(calls, Call("paragraph.Open", id, ctl.parent, "node"))
          ELSE /\ UNCHANGED <<nodes, opened, rpos>>
               /\ ctl' = OpenNext(ctl, 4, PeekLine, LineOffset)
               /\ calls' = Append(calls, Call("paragraph.Open", 0, ctl.parent, "nil"))
    /\ UNCHANGED <<skipListParserKey, emptyListItemWithBlankLines, line, nread>>
    /\ UNCHANGED renderVars
    /\ UNCHANGED fnVars

\* The host's paragraph parser, Continue, called by openBlocks when no
\* block parser opened a block on a line that follows an open paragraph.
paragraph_Continue ==
    /\ ctl.phase = "open"
    /\ ctl.k = 4
    /\ LET id == LastOpenedBlock IN
       IF IsBlank(PeekLine)
       THEN /\ UNCHANGED <<nodes, rpos>>
            /\ ctl' = AfterOpen(ctl)
            /\ calls' = Append(calls, Call("paragraph.Continue", id, nodes[id].parent, "close"))
       ELSE /\ nodes' = [nodes EXCEPT ![id].lines = Append(@, PeekLine)]
            /\ rpos' = Len(line) - 1
            /\ ctl' = AfterOpen([ctl EXCEPT !.result = "paragraphContinuation"])
            /\ calls' = Append(calls, Call("paragraph.Continue", id, nodes[id].parent, "continue"))
    /\ UNCHANGED <<opened, skipListParserKey, emptyListItemWithBlankLines, line, nread>>
    /\ UNCHANGED renderVars
    /\ UNCHANGED fnVars

(***************************************************************************)
(* closeBlocks: the Close callbacks, innermost block first                 *)
(***************************************************************************)
\* The first loop of fancyListParser.Close without its inner loop over the
\* children of an item.
LooseItemsOnly(ns, id) ==
    \E k \in DOMAIN ns[id].children : k > 1 /\ ns[ns[id].children[k]].blankPrev

\* The first loop of fancyListParser.Close: TRUE when the list ends loose.
Loose(ns, id) ==
    \E k \in DOMAIN ns[id].children :
        LET c == ns[id].children[k] IN
        \/ \E m \in 2..Len(ns[c].children) : ns[ns[c].children[m]].blankPrev
        \/ k > 1 /\ ns[c].blankPrev

\* fancyListParser.Close: the tree after the close of list id
fancyListParserClose(ns, id) ==
    IF ~ns[id].isTight \/ Loose(ns, id)
    THEN [ns EXCEPT ![id].isTight = FALSE]
    ELSE [n \in DOMAIN ns |->
            IF ns[n].kind = "Paragraph" /\ ns[n].parent # 0
               /\ ns[ns[n].parent].kind = "ListItem" /\ ns[ns[n].parent].parent = id
            THEN [NewNode("TextBlock", ns[n].parent) EXCEPT !.lines = ns[n].lines]
            ELSE ns[n]]

\* closeBlocks after the Close callback of block j
CloseNext(c) == IF c.j = c.to
                THEN IF c.eof THEN [Idle EXCEPT !.phase = "parsed"] ELSE Idle
                ELSE [c EXCEPT !.j = c.j - 1]

CloseOpened(c, ops) ==
    IF c.j = c.to THEN SubSeq(ops, 1, c.to - 1) \o SubSeq(ops, c.from + 1, Len(ops))
    ELSE ops

fancyListParser_Close ==
    /\ ctl.phase = "close"
    /\ nodes[opened[ctl.j]].kind = "List"
    /\ nodes' = fancyListParserClose(nodes, opened[ctl.j])
    /\ opened' = CloseOpened(ctl, opened)
    /\ ctl' = CloseNext(ctl)
    /\ calls' = Append(calls, Call("fancyListParser.Close", opened[ctl.j],
                                   nodes[opened[ctl.j]].parent, ""))
    /\ UNCHANGED <<skipListParserKey, emptyListItemWithBlankLines, line, rpos, nread>>
    /\ UNCHANGED renderVars
    /\ UNCHANGED fnVars

fancyListItemParser_Close ==
    /\ ctl.phase = "close"
    /\ nodes[opened[ctl.j]].kind = "ListItem"
    /\ opened' = CloseOpened(ctl, opened)
    /\ ctl' = CloseNext(ctl)
    /\ calls' = Append(calls, Call("fancyListItemParser.Close", opened[ctl.j],
                                   nodes[opened[ctl.j]].parent, ""))
    /\ UNCHANGED <<nodes, skipListParserKey, emptyListItemWithBlankLines, line, rpos, nread>>
    /\ UNCHANGED renderVars
    /\ UNCHANGED fnVars

\* The host's paragraph parser, Close
paragraph_Close ==
    /\ ctl.phase = "close"
    /\ nodes[opened[ctl.j]].kind = "Paragraph"
    /\ opened' = CloseOpened(ctl, opened)
    /\ ctl' = CloseNext(ctl)
    /\ calls' = Append(calls, Call("paragraph.Close", opened[ctl.j],
                                   nodes[opened[ctl.j]].parent, ""))
    /\ UNCHANGED <<nodes, skipListParserKey, emptyListItemWithBlankLines, line, rpos, nread>>
    /\ UNCHANGED renderVars
    /\ UNCHANGED fnVars

(***************************************************************************)
(* The renderers                                                           *)
(***************************************************************************)
\* The class of an ordered list by its type attribute
TypeClass(attrs) ==
    LET t == AttributeString(attrs, "type") IN
    IF ~t[1] THEN "fl-num"
    ELSE CASE t[2] = "a" -> "fl-lcalpha"
           [] t[2] = "A" -> "fl-ucalpha"
           [] t[2] = "i" -> "fl-lcroman"
           [] t[2] = "I" -> "fl-ucroman"
           [] OTHER -> "fl-num"

ClassValues(n) ==
    (IF IsOrdered(n) THEN <<"fancy", TypeClass(n.attrs)>> ELSE <<>>)
    \o (IF AttributeString(n.attrs, "class")[1]
        THEN <<AttributeString(n.attrs, "class")[2]>> ELSE <<>>)

RECURSIVE WriteClasses(_, _)
WriteClasses(cv, i) ==
    IF i > Len(cv) THEN <<>>
    ELSE (IF i > 1 THEN <<" ">> ELSE <<>>) \o <<cv[i]>> \o WriteClasses(cv, i + 1)

RECURSIVE WriteAttributes(_, _)
WriteAttributes(attrs, i) ==
    IF i > Len(attrs) THEN <<>>
    ELSE (IF attrs[i].name \notin {"class", "type"}
          THEN <<" ", attrs[i].name, "=\"", attrs[i].value, "\"">>
          ELSE <<>>)
         \o WriteAttributes(attrs, i + 1)

\* The attribute loop of renderList without the skip of class and type.
RECURSIVE WriteEveryAttribute(_, _)
WriteEveryAttribute(attrs, i) ==
    IF i > Len(attrs) THEN <<>>
    ELSE <<" ", attrs[i].name, "=\"", attrs[i].value, "\"">>
         \o WriteEveryAttribute(attrs, i + 1)

\* renderList with every attribute of the list written by the attribute loop.
renderListEveryAttribute(n, entering) ==
    LET tag == IF IsOrdered(n) THEN "ol" ELSE "ul"
        cv == ClassValues(n)
        t == AttributeString(n.attrs, "type")
    IN
    IF entering
    THEN <<"<", tag>>
         \o (IF Len(cv) > 0 THEN <<" class=\"">> \o WriteClasses(cv, 1) \o <<"\"">> ELSE <<>>)
         \o (IF IsOrdered(n)
             THEN (IF t[1] THEN <<" type=\"", t[2], "\"">> ELSE <<" type=\"1\"">>)
                  \o (IF n.start # 1 THEN <<" start=\"", Itoa(n.start), "\"">>
                      ELSE <<" start=\"1\"">>)
             ELSE <<>>)
         \o WriteEveryAttribute(n.attrs, 1)
         \o <<">\n">>
    ELSE <<"</", tag, ">\n">>

\* renderList with the start attribute left out of a list that starts at 1.
renderListDefaultStart(n, entering) ==
    LET tag == IF IsOrdered(n) THEN "ol" ELSE "ul"
        cv == ClassValues(n)
        t == AttributeString(n.attrs, "type")
    IN
    IF entering
    THEN <<"<", tag>>
         \o (IF Len(cv) > 0 THEN <<" class=\"">> \o WriteClasses(cv, 1) \o <<"\"">> ELSE <<>>)
         \o (IF IsOrdered(n)
             THEN (IF t[1] THEN <<" type=\"", t[2], "\"">> ELSE <<" type=\"1\"">>)
                  \o (IF n.start # 1 THEN <<" start=\"", Itoa(n.start), "\"">>
                      ELSE <<>>)
             ELSE <<>>)
         \o WriteAttributes(n.attrs, 1)
         \o <<">\n">>
    ELSE <<"</", tag, ">\n">>

\* renderList: the writes of one call
renderList(n, entering) ==
    LET tag == IF IsOrdered(n) THEN "ol" ELSE "ul"
        cv == ClassValues(n)
        t == AttributeString(n.attrs, "type")
    IN
    IF entering
    THEN <<"<", tag>>
         \o (IF Len(cv) > 0 THEN <<" class=\"">> \o WriteClasses(cv, 1) \o <<"\"">> ELSE <<>>)
         \o (IF IsOrdered(n)
             THEN (IF t[1] THEN <<" type=\"", t[2], "\"">> ELSE <<" type=\"1\"">>)
                  \o (IF n.start # 1 THEN <<" start=\"", Itoa(n.start), "\"">>
                      ELSE <<" start=\"1\"">>)
             ELSE <<>>)
         \o WriteAttributes(n.attrs, 1)
         \o <<">\n">>
    ELSE <<"</", tag, ">\n">>

\* renderListItem with the value attribute of the item written into the tag.
renderListItemWithValue(n, firstKind, entering) ==
    IF entering
    THEN <<"<li">>
         \o (IF AttributeString(n.attrs, "value")[1]
             THEN <<" value=\"", AttributeString(n.attrs, "value")[2], "\"">> ELSE <<>>)
         \o <<">">>
         \o (IF firstKind # "" /\ firstKind # "TextBlock" THEN <<"\n">> ELSE <<>>)
    ELSE <<"</li>\n">>

\* renderListItem: the writes of one call; firstKind is the kind of the
\* item's first child, "" without children
renderListItem(n, firstKind, entering) ==
    IF entering
    THEN <<"<li", ">">> \o (IF firstKind # "" /\ firstKind # "TextBlock" THEN <<"\n">> ELSE <<>>)
    ELSE <<"</li>\n">>

\* The renderer's walk, restricted to the lists and the list items
RECURSIVE Visits(_, _)
RECURSIVE VisitsOf(_, _, _)
VisitsOf(ns, kids, i) ==
    IF i > Len(kids) THEN <<>> ELSE Visits(ns, kids[i]) \o VisitsOf(ns, kids, i + 1)

Visits(ns, id) ==
    IF ns[id].kind \in {"List", "ListItem"}
    THEN <<[n |-> id, entering |-> TRUE]>> \o VisitsOf(ns, ns[id].children, 1)
         \o <<[n |-> id, entering |-> FALSE]>>
    ELSE VisitsOf(ns, ns[id].children, 1)

\* Markdown.Convert goes from the parse to the rendering of the tree.
StartRender ==
    /\ ctl.phase = "parsed"
    /\ ctl' = [Idle EXCEPT !.phase = "render"]
    /\ walk' = Visits(nodes, Root)
    /\ UNCHANGED <<nodes, opened, skipListParserKey, emptyListItemWithBlankLines, line, rpos,
                   nread, calls, out, wrote>>
    /\ UNCHANGED fnVars

fancyListHTMLRenderer_renderList ==
    /\ ctl.phase = "render"
    /\ Len(walk) > 0
    /\ nodes[Head(walk).n].kind = "List"
    /\ wrote' = [node |-> Head(walk).n, entering |-> Head(walk).entering,
                 text |-> renderList(nodes[Head(walk).n], Head(walk).entering)]
    /\ out' = out \o wrote'.text
    /\ walk' = Tail(walk)
    /\ UNCHANGED parseVars
    /\ UNCHANGED fnVars

fancyListItemHTMLRenderer_renderListItem ==
    /\ ctl.phase = "render"
    /\ Len(walk) > 0
    /\ nodes[Head(walk).n].kind = "ListItem"
    /\ LET n == nodes[Head(walk).n]
           firstKind == IF Len(n.children) = 0 THEN "" ELSE nodes[n.children[1]].kind
       IN wrote' = [node |-> Head(walk).n, entering |-> Head(walk).entering,
                    text |-> renderListItem(n, firstKind, Head(walk).entering)]
    /\ out' = out \o wrote'.text
    /\ walk' = Tail(walk)
    /\ UNCHANGED parseVars
    /\ UNCHANGED fnVars

Next ==
    \/ \E l \in LineSet : NextLine(l)
    \/ EndOfInput
    \/ fancyListParser_Continue
    \/ fancyListItemParser_Continue
    \/ fancyListParser_Open
    \/ fancyListItemParser_Open
    \/ paragraph_Open
    \/ paragraph_Continue
    \/ fancyListParser_Close
    \/ fancyListItemParser_Close
    \/ paragraph_Close
    \/ StartRender
    \/ fancyListHTMLRenderer_renderList
    \/ fancyListItemHTMLRenderer_renderListItem

Spec == Init /\ [][Next]_vars

(***************************************************************************)
(* Classifier runs: a marker token is typed byte by byte, then scanned,    *)
(* classified and offered to fancyListParser.Open as the first line of a   *)
(* document                                                                *)
(***************************************************************************)
MaxLetters == 3

MaxDigits == 10

LetterSet == {"a", "b", "z", "i", "v", "x", "A", "I", "V"}

DigitSet == {"0", "9"}

TokenBytes == LetterSet \cup DigitSet \cup {"#"}

AllDigits(s) == \A k \in DOMAIN s : IsNumeric(s[k])

AllLetters(s) == \A k \in DOMAIN s : s[k] \in Range(LcLetters) \cup Range(UcLetters)

TypeByte(c) ==
    /\ ctl.phase = "line"
    /\ nread = 0
    /\ \/ Len(tok) < MaxLetters
       \/ AllDigits(tok) /\ IsNumeric(c) /\ Len(tok) < MaxDigits
    /\ tok' = Append(tok, c)
    /\ fn' = NoFn
    /\ UNCHANGED parseVars
    /\ UNCHANGED renderVars

\* The token followed by delim, a space and content is scanned and offered
\* to fancyListParser.Open under the root of an empty document.
RunToken(delim) ==
    /\ ctl.phase = "line"
    /\ nread = 0
    /\ ~fn.ran
    /\ \E l \in {MkLine(0, tok, delim)} :
       \E r \in {parseListItem(l)} :
          fn' = [ran |-> TRUE, delim |-> delim, line |-> l, scan |-> r,
                 alpha |-> alphabeticToNumber(tok),
                 roman |-> romanToNumber(tok),
                 ltype |-> getListTypeFromMarker(tok, r.typ),
                 open |-> fancyListParserOpen("none", 0, Root, "Document", l)]
    /\ UNCHANGED tok
    /\ UNCHANGED parseVars
    /\ UNCHANGED renderVars

NextFn ==
    \/ \E c \in TokenBytes : TypeByte(c)
    \/ \E d \in {".", ")"} : RunToken(d)

SpecFn == Init /\ [][NextFn]_vars

(***************************************************************************)
(* Properties of fancyListParser.Continue                                  *)
(***************************************************************************)
\* The marker scanned on the line a callback peeked
CallMatch(c) == matchesListItem(c.peek, FALSE)

CallToken(c) == MarkerToken(c.peek, CallMatch(c))

\* A call of fancyListParser.Continue on a line that stands in item position
\* of the list: a marker indented less than the content of the last item (or
\* after an empty item) and less than four columns.
InItemPosition(c) ==
    LET indent == IndentWidth(c.peek, c.rpos)[1] IN
    /\ c.cb = "fancyListParser.Continue"
    /\ indent < c.offset \/ c.lastIsEmpty
    /\ indent < 4
    /\ CallMatch(c).typ # notList
    /\ M(CallMatch(c), 1) - c.offset < 4

\* ... with an ordered marker of the list's kind and delimiter
CompatibleMarker(c) ==
    /\ InItemPosition(c)
    /\ CallMatch(c).typ \in {orderedList, orderedListFancy}
    /\ IsOrdered(nodes[c.node])
    /\ MarkerByte(c.peek, CallMatch(c)) = nodes[c.node].marker

\* The type tag of a list, "1" without one
TypeTag(attrs) ==
    IF \E k \in DOMAIN attrs : attrs[k].name = "type"
    THEN (CHOOSE a \in Range(attrs) : a.name = "type").value
    ELSE "1"

\* The value attribute of an item, "" without one
ValueOf(n) ==
    IF \E k \in DOMAIN n.attrs : n.attrs[k].name = "value"
    THEN (CHOOSE a \in Range(n.attrs) : a.name = "value").value
    ELSE ""

\* C1: in fancyListParser.Continue, a compatible marker line whose token is
\* exactly "i" continues the list iff the list's type is "a" or "i" and
\* closes it for "1" (or no type), "A" and "I"; a token "I" continues it iff
\* the type is "A" or "I" and closes it for "1", "a" and "i".
C1_Theorem ==
    \A k \in DOMAIN calls :
        LET c == calls[k] IN
        CompatibleMarker(c) =>
            /\ CallToken(c) = <<"i">> =>
                  /\ c.ret \in {"continue", "close"}
                  /\ c.ret = "continue" <=> TypeTag(c.attrs) \in {"a", "i"}
            /\ CallToken(c) = <<"I">> =>
                  /\ c.ret \in {"continue", "close"}
                  /\ c.ret = "continue" <=> TypeTag(c.attrs) \in {"A", "I"}

\* A lower-case alphabetic list was continued by a line "i.", which became
\* its second item.
C1_Witness ==
    \E k \in DOMAIN calls :
        /\ CompatibleMarker(calls[k]) /\ CallToken(calls[k]) = <<"i">>
        /\ TypeTag(calls[k].attrs) = "a" /\ calls[k].ret = "continue"
        /\ ctl.phase = "line"
        /\ Len(nodes[calls[k].node].children) = 2

\* The numeric value of a marker token read as a marker of the given type
TokenValue(token, type) ==
    CASE type \in {"a", "A"} -> alphabeticToNumber(token)
      [] type \in {"i", "I"} -> romanToNumber(token).num
      [] OTHER -> Atoi(token)

\* A call of fancyListParser.Continue on a compatible marker other than "#"
\* whose expected type differs from the type of the list
TypeMismatch(c) ==
    /\ CompatibleMarker(c)
    /\ CallToken(c) # <<"#">>
    /\ expectedType(CallToken(c), CallMatch(c).typ, TypeTag(c.attrs)) # TypeTag(c.attrs)

\* A later callback of the same line opened, under the same parent, a list
\* of the given type and start
OpensSibling(k, type, start) ==
    \E j \in (k + 1)..Len(calls) :
        /\ calls[j].cb = "fancyListParser.Open"
        /\ calls[j].ret = "node"
        /\ calls[j].parent = calls[k].parent
        /\ TypeTag(nodes[calls[j].node].attrs) = type
        /\ nodes[calls[j].node].start = start
        /\ Len(nodes[calls[j].node].children) = 1

\* C2: whenever Continue finds an ordered marker whose expected type differs
\* from the type of the open list, the list closes and the same line becomes
\* the first item of a new sibling list whose type is the expected type and
\* whose start is the numeric value of the token; no such line is absorbed
\* as text or dropped.
C2_Claim ==
    \A k \in DOMAIN calls :
        TypeMismatch(calls[k]) =>
            /\ calls[k].ret = "close"
            /\ ctl.phase = "line" =>
                  LET type == expectedType(CallToken(calls[k]), CallMatch(calls[k]).typ,
                                           TypeTag(calls[k].attrs))
                  IN OpensSibling(k, type, TokenValue(CallToken(calls[k]), type))

\* The same statement, for the markers on which fancyListParser.Open and
\* getListTypeFromMarker agree (every token but the ones that start with "i"
\* or "I" and are no roman numeral).
C2_Agreeing ==
    \A k \in DOMAIN calls :
        (/\ TypeMismatch(calls[k])
         /\ ~OpenStart(CallToken(calls[k]), CallMatch(calls[k]).typ).reject) =>
            /\ calls[k].ret = "close"
            /\ ctl.phase = "line" =>
                  LET type == expectedType(CallToken(calls[k]), CallMatch(calls[k]).typ,
                                           TypeTag(calls[k].attrs))
                  IN OpensSibling(k, type, TokenValue(CallToken(calls[k]), type))

\* A call of fancyListParser.Continue of an ordered list on a line whose
\* marker token is "#"
HashMarker(c) ==
    /\ c.cb = "fancyListParser.Continue"
    /\ IsOrdered(nodes[c.node])
    /\ CallMatch(c).typ = orderedListFancy
    /\ CallToken(c) = <<"#">>

\* A later callback of the same line appended an item to the list of call k,
\* numbered with the list's start plus the number of items before it
TakesNextPosition(k) ==
    \E j \in (k + 1)..Len(calls) :
        LET list == nodes[calls[k].node] IN
        /\ calls[j].cb = "fancyListItemParser.Open"
        /\ calls[j].ret = "node"
        /\ calls[j].parent = calls[k].node
        /\ calls[j].node = list.children[Len(list.children)]
        /\ ValueOf(nodes[calls[j].node]) = Itoa(calls[k].start + Len(list.children) - 1)

C4_Theorem ==
    \A id \in DOMAIN nodes :
        nodes[id].kind = "List" =>
            \A k \in DOMAIN nodes[id].children :
                LET item == nodes[nodes[id].children[k]] IN
                IF IsOrdered(nodes[id])
                THEN ValueOf(item) = Itoa(nodes[id].start + (k - 1))
                ELSE \A a \in DOMAIN item.attrs : item.attrs[a].name # "value"

\* A list that started at 2 took a line "i." as its third item, numbered 4.
C4_Witness ==
    \E k \in DOMAIN calls :
        /\ calls[k].cb = "fancyListItemParser.Open"
        /\ calls[k].ret = "node"
        /\ CallToken(calls[k]) = <<"i">>
        /\ nodes[calls[k].parent].start = 2
        /\ Len(nodes[calls[k].parent].children) = 3
        /\ ValueOf(nodes[calls[k].node]) = "4"

\* The text of a sequence of writes
RECURSIVE Join(_)
Join(ws) == IF Len(ws) = 0 THEN "" ELSE Head(ws) \o Join(Tail(ws))

\* The class suffix that goes with an HTML list type
ClassSuffix(type) ==
    CASE type = "1" -> "num"
      [] type = "a" -> "lcalpha"
      [] type = "A" -> "ucalpha"
      [] type = "i" -> "lcroman"
      [] type = "I" -> "ucroman"

\* C5: for every ordered list of the parse, renderList writes the opening
\* tag <ol class="fancy fl-S" type="T" start="N"> where T is the type tag of
\* the list ("1" without one), S the class suffix of T and N the start of
\* the list, also when N is 1; for a bullet list it writes <ul> alone.
C5_Theorem ==
    (wrote.node # 0 /\ nodes[wrote.node].kind = "List" /\ wrote.entering) =>
        LET n == nodes[wrote.node]
            T == TypeTag(n.attrs)
        IN IF IsOrdered(n)
           THEN /\ T \in {"1", "a", "A", "i", "I"}
                /\ Join(wrote.text) = "<ol class=\"fancy fl-" \o ClassSuffix(T) \o "\" type=\""
                                        \o T \o "\" start=\"" \o Itoa(n.start) \o "\">\n"
           ELSE Join(wrote.text) = "<ul>\n"

\* The opening tag of an upper-case alphabetic list that starts at 1 was
\* written.
C5_Witness ==
    /\ wrote.node # 0 /\ nodes[wrote.node].kind = "List" /\ wrote.entering
    /\ TypeTag(nodes[wrote.node].attrs) = "A"
    /\ nodes[wrote.node].start = 1
    /\ Join(wrote.text) = "<ol class=\"fancy fl-ucalpha\" type=\"A\" start=\"1\">\n"

\* C6: the list-item renderer never writes a value attribute: every item,
\* ordered or not and whatever its attributes, is opened with exactly <li>.
C6_Theorem ==
    (wrote.node # 0 /\ nodes[wrote.node].kind = "ListItem" /\ wrote.entering) =>
        Join(wrote.text) \in {"<li>", "<li>\n"}

\* An item that carries the value 2 was opened.
C6_Witness ==
    /\ wrote.node # 0 /\ nodes[wrote.node].kind = "ListItem" /\ wrote.entering
    /\ ValueOf(nodes[wrote.node]) = "2"
    /\ Join(wrote.text) = "<li>"

(***************************************************************************)
(* Properties of the classifiers and of the scanner                        *)
(***************************************************************************)
\* A classifier run on a token of one or more ASCII letters
LetterRun == fn.ran /\ Len(tok) >= 1 /\ AllLetters(tok)

\* C7: for every token of ASCII letters whose first byte is not "i" or "I",
\* romanToNumber returns (0, false), also when the token is a roman numeral
\* that can be decoded, and fancyListParser.Open and getListTypeFromMarker
\* both classify it as alphabetic, lower or upper case by its first byte; a
\* first line "vi." opens a lower-case alphabetic list that starts at 581.
C7_Theorem ==
    (LetterRun /\ tok[1] \notin {"i", "I"}) =>
        LET lower == tok[1] \in Range(LcLetters) IN
        /\ fn.roman = [num |-> 0, ok |-> FALSE]
        /\ fn.ltype = IF lower THEN <<"a", "fl-lcalpha">> ELSE <<"A", "fl-ucalpha">>
        /\ fn.open.node
        /\ fn.open.fltype = IF lower THEN "a" ELSE "A"
        /\ fn.open.start = fn.alpha
        /\ tok = <<"v", "i">> => fn.open.start = 581

\* The token "vi", the numeral of 6, opened an alphabetic list at 581.
C7_Witness ==
    /\ LetterRun
    /\ tok = <<"v", "i">>
    /\ StringToInt(StringsToUpper(tok)) = [num |-> 6, err |-> FALSE]
    /\ fn.roman.ok = FALSE
    /\ fn.open.node /\ fn.open.fltype = "a" /\ fn.open.start = 581

RomanStarters ==
    { <<"i">>, <<"i", "i">>, <<"i", "i", "i">>, <<"i", "v">>,
      <<"I">>, <<"I", "I">>, <<"I", "I", "I">>, <<"I", "V">> }

\* C8: a roman list is started only by the tokens i, ii, iii, iv, I, II, III
\* and IV: among the letter tokens romanToNumber returns ok for exactly
\* these eight, and fancyListParser.Open creates a list of type "i" or "I",
\* with a start between 1 and 4, for no other first marker.
C8_Claim ==
    LetterRun =>
        /\ fn.roman.ok <=> tok \in RomanStarters
        /\ (fn.open.node /\ fn.open.fltype \in {"i", "I"}) =>
              (tok \in RomanStarters /\ fn.open.start \in 1..4)

\* The digit of a letter, 1 for "a" or "A" up to 26 for "z" or "Z"
LetterDigit(c) ==
    CHOOSE d \in 1..26 : LcLetters[d] = c \/ UcLetters[d] = c

\* The sum over the positions j of a letter token of d_j * 26^(n-j)
RECURSIVE PositionalSum(_, _)
PositionalSum(s, j) ==
    IF j > Len(s) THEN 0
    ELSE LetterDigit(s[j]) * 26^(Len(s) - j) + PositionalSum(s, j + 1)

\* The lower-case token of a value in bijective base 26
RECURSIVE LettersOf(_)
LettersOf(n) ==
    IF n = 0 THEN <<>>
    ELSE LettersOf((n - 1) \div 26) \o <<LcLetters[((n - 1) % 26) + 1]>>

\* C9: alphabeticToNumber is bijective base 26 without regard to case: the
\* value of a token of ASCII letters is the sum over its positions of
\* d * 26^(n-1-j) with d = 1..26 for a..z (a = 1, z = 26, aa = 27, ab = 28,
\* vi = 581); two tokens have the same value iff they are equal ignoring
\* case (the value gives back the lowered token, and the upper-case and
\* lower-case forms of a token have its value); the value is 0 for the
\* empty string and for a token with a byte that is no letter.
C9_Theorem ==
    fn.ran =>
        /\ (Len(tok) >= 1 /\ AllLetters(tok)) =>
              /\ fn.alpha = PositionalSum(tok, 1)
              /\ LettersOf(fn.alpha) = StringsToLower(tok)
              /\ alphabeticToNumber(StringsToLower(tok)) = fn.alpha
              /\ alphabeticToNumber(StringsToUpper(tok)) = fn.alpha
        /\ (Len(tok) = 0 \/ ~AllLetters(tok)) => fn.alpha = 0
        /\ tok = <<"a">> => fn.alpha = 1
        /\ tok = <<"z">> => fn.alpha = 26
        /\ tok = <<"a", "a">> => fn.alpha = 27
        /\ tok = <<"a", "b">> => fn.alpha = 28
        /\ tok = <<"v", "i">> => fn.alpha = 581

\* The mixed-case token "zAb" was given the value of "zab".
C9_Witness ==
    /\ fn.ran
    /\ tok = <<"z", "A", "b">>
    /\ fn.alpha = 26 * 676 + 26 + 2
    /\ LettersOf(fn.alpha) = <<"z", "a", "b">>

\* The value of a run of decimal digits, the sum of d_j * 10^(n-j)
RECURSIVE DecimalValue(_, _)
DecimalValue(s, j) ==
    IF j > Len(s) THEN 0
    ELSE (CHOOSE d \in 0..9 : Digits[d + 1] = s[j]) * 10^(Len(s) - j)
         + DecimalValue(s, j + 1)

\* A classifier run on a token of one or more decimal digits
DigitRun == fn.ran /\ Len(tok) >= 1 /\ AllDigits(tok)

\* C10: a line made of 1 to 9 digits (leading zeros and the value 0
\* included), "." or ")", a space and content is scanned as a numeric marker
\* and opens a list whose start is the decimal value of the digits; with 10
\* digits or more the scan gives notList, no list is opened and the line is
\* paragraph text.
C10_Theorem ==
    DigitRun =>
        IF Len(tok) <= 9
        THEN /\ fn.scan.typ = orderedList
             /\ fn.open.node
             /\ fn.open.start = DecimalValue(tok, 1)
             /\ fn.open.fltype = ""
             /\ fn.open.marker = fn.delim
        ELSE /\ fn.scan.typ = notList
             /\ ~fn.open.node
             /\ matchesListItem(fn.line, FALSE).typ = notList
             /\ Len(TrimLeftSpace(fn.line)) > 0

\* The nine digits 009000999 followed by ")" opened a list at 9000999.
C10_Witness ==
    /\ DigitRun
    /\ tok = <<"0", "0", "9", "0", "0", "0", "9", "9", "9">>
    /\ fn.delim = ")"
    /\ fn.open.node /\ fn.open.start = 9000999

(***************************************************************************)
(* Scanner runs: a line is put together from leading spaces, a marker      *)
(* typed byte by byte, a delimiter (or none) and the bytes that follow,    *)
(* and is handed to parseListItem                                          *)
(***************************************************************************)
MaxRun == 7

MaxIndent == 4

Bullets == {"-", "*", "+"}

RunBytes == {"a", "Z", "0xC3", "0xAA", "2"}

Delims == {<<".">>, <<")">>}

Tails == { <<>>, <<"\n">>, <<" ">>, <<" ", "\n">>, <<" ", "x", "\n">>, <<" ", "x">>,
           <<"\t", "x", "\n">>, <<"x", "\n">>, <<"x">>, <<"1", ".", " ", "x", "\n">> }

Spaces(n) == [k \in 1..n |-> " "]

\* One more byte of the marker: a bullet or "#" alone, or a run of letter
\* and digit bytes (any of them up to MaxLetters bytes, "a" beyond).
TypeMarkerByte(c) ==
    /\ ctl.phase = "line"
    /\ nread = 0
    /\ \/ c \in Bullets \cup {"#"} /\ tok = <<>>
       \/ /\ \A k \in DOMAIN tok : tok[k] \in RunBytes
          /\ \/ c \in RunBytes /\ Len(tok) < MaxLetters
             \/ c = "a" /\ Len(tok) < MaxRun
    /\ tok' = Append(tok, c)
    /\ fn' = NoFn
    /\ UNCHANGED parseVars
    /\ UNCHANGED renderVars

\* parseListItem on the line made of ind spaces, the marker, delim and tail.
ScanLine(ind, delim, tail) ==
    /\ ctl.phase = "line"
    /\ nread = 0
    /\ ~fn.ran
    /\ Len(tok) > 0
    /\ \E l \in {Spaces(ind) \o tok \o delim \o tail} :
       \E r \in {parseListItem(l)} :
          fn' = [ran |-> TRUE, ind |-> ind, delim |-> delim, tail |-> tail,
                 line |-> l, scan |-> r]
    /\ UNCHANGED tok
    /\ UNCHANGED parseVars
    /\ UNCHANGED renderVars

\* The marker at every indentation, followed by a space and content.
ScanIndented ==
    \E ind \in 0..MaxIndent : \E d \in Delims : ScanLine(ind, d, <<" ", "x", "\n">>)

\* The marker at the margin, with or without a delimiter, before every tail.
ScanFollowed ==
    \E d \in Delims \cup {<<>>} : \E t \in Tails : ScanLine(0, d, t)

NextScan ==
    \/ \E c \in RunBytes \cup Bullets \cup {"#"} : TypeMarkerByte(c)
    \/ ScanIndented
    \/ ScanFollowed

SpecScan == Init /\ [][NextScan]_vars

(***************************************************************************)
(* Properties of parseListItem                                             *)
(***************************************************************************)
\* The bytes of the scanned line after the marker: after the bullet, or
\* after the delimiter of an ordered marker
AfterMarker == IF tok[1] \in Bullets THEN fn.delim \o fn.tail ELSE fn.tail

\* The typed bytes and the delimiter have the shape of a marker.
MarkerShape ==
    \/ tok[1] \in Bullets
    \/ fn.delim \in Delims

\* C11: for every marker kind (bullet, digits, letters, "#"), when the byte
\* right after the marker (after its delimiter, or after the bullet) is
\* neither a space, a tab, a newline nor the end of the input, parseListItem
\* returns notList.
C11_Theorem ==
    (fn.ran /\ MarkerShape /\ Len(AfterMarker) > 0 /\ AfterMarker[1] \notin {" ", "\t", "\n"})
        => fn.scan.typ = notList

\* "-1. x" was scanned: a bullet with the content glued to it is no list item.
C11_Witness ==
    /\ fn.ran
    /\ fn.line = <<"-", "1", ".", " ", "x", "\n">>
    /\ fn.scan.typ = notList

(***************************************************************************)
(* Short documents: paragraphs of plain text, markers with either          *)
(* delimiter, markers without content and markers indented under the       *)
(* content of a list item                                                  *)
(***************************************************************************)
MaxShort == 2

\* A marker line without content: indent spaces, the marker, a newline.
MkEmpty(indent, marker) == Spaces(indent) \o marker \o <<"\n">>

ShortLineSet ==
    { <<"x", "\n">>, <<"-", " ", "x", "\n">>, <<"*", " ", "x", "\n">>,
      <<" ", " ", " ", "-", " ", "x", "\n">> }
    \cup { MkLine(0, t, ".") : t \in { <<"1">>, <<"2">>, <<"a">>, <<"b">>, <<"i">>,
                                       <<"i","i">>, <<"#">> } }
    \cup { MkLine(0, t, ")") : t \in { <<"1">>, <<"2">> } }
    \cup { MkLine(3, t, ".") : t \in { <<"2">>, <<"b">> } }
    \cup { MkEmpty(n, t) : n \in {0, 3}, t \in { <<"-">>, <<"1", ".">> } }

ShortLine(l) ==
    /\ nread < MaxShort
    /\ NextLine(l)

NextShort ==
    \/ \E l \in ShortLineSet : ShortLine(l)
    \/ EndOfInput
    \/ fancyListParser_Continue
    \/ fancyListItemParser_Continue
    \/ fancyListParser_Open
    \/ fancyListItemParser_Open
    \/ paragraph_Open
    \/ paragraph_Continue
    \/ fancyListParser_Close
    \/ fancyListItemParser_Close
    \/ paragraph_Close
    \/ StartRender
    \/ fancyListHTMLRenderer_renderList
    \/ fancyListItemHTMLRenderer_renderListItem

SpecShort == Init /\ [][NextShort]_vars

(***************************************************************************)
(* Properties of fancyListParser.Open after a paragraph                    *)
(***************************************************************************)
\* The marker a call of fancyListParser.Open scans on the line it peeks
OpenMatch(c) == matchesListItem(c.peek, TRUE)

\* A call of fancyListParser.Open on a marker line while the last opened
\* block is a paragraph with the parent the new list would have
AfterParagraph(c) ==
    /\ c.cb = "fancyListParser.Open"
    /\ c.lastKind = "Paragraph"
    /\ c.lastParent = c.parent
    /\ OpenMatch(c).typ # notList

\* The content of the marker line is absent or blank.
NoContent(c) ==
    LET r == OpenMatch(c) IN
    \/ M(r, 3) >= Len(c.peek)
    \/ IsBlank(Slice(c.peek, M(r, 3), Len(c.peek)))

\* The start value of an ordered marker: 1 for "#", the decimal value of
\* digits, the roman value of a roman numeral in i/I, else the alphabetic
\* value.
StartOf(token) ==
    IF token = <<"#">> THEN 1
    ELSE IF \A k \in DOMAIN token : token[k] \in Range(Digits) THEN Atoi(token)
    ELSE IF romanToNumber(token).ok THEN romanToNumber(token).num
    ELSE alphabeticToNumber(token)

OrderedCandidate(c) == OpenMatch(c).typ \in {orderedList, orderedListFancy}

\* C12: when the last opened block is a paragraph with the candidate's
\* parent, an ordered candidate under a parent that is no list item is
\* rejected when its start is not 1 and accepted when its start is 1 and it
\* has content; under a list item an ordered candidate with content is
\* accepted with any start; a bullet candidate with content is accepted
\* under every parent.
C12_Theorem ==
    \A k \in DOMAIN calls :
        LET c == calls[k]
            start == StartOf(MarkerToken(c.peek, OpenMatch(c)))
        IN
        AfterParagraph(c) =>
            /\ (OrderedCandidate(c) /\ nodes[c.parent].kind # "ListItem" /\ start # 1)
                  => c.ret = "nil"
            /\ (OrderedCandidate(c) /\ nodes[c.parent].kind # "ListItem" /\ start = 1
                  /\ ~NoContent(c))
                  => c.ret = "node" /\ nodes[c.node].start = 1
            /\ (OrderedCandidate(c) /\ nodes[c.parent].kind = "ListItem" /\ ~NoContent(c))
                  => c.ret = "node" /\ nodes[c.node].start = start
            /\ (OpenMatch(c).typ = bulletList /\ ~NoContent(c)) => c.ret = "node"

\* Under the paragraph of a list item, a line "2." opened a nested list that
\* starts at 2.
C12_Witness ==
    \E k \in DOMAIN calls :
        /\ AfterParagraph(calls[k]) /\ OrderedCandidate(calls[k])
        /\ nodes[calls[k].parent].kind = "ListItem"
        /\ MarkerToken(calls[k].peek, OpenMatch(calls[k])) = <<"2">>
        /\ calls[k].ret = "node"
        /\ nodes[calls[k].node].start = 2

\* C13: when the last opened block is a paragraph with the candidate's
\* parent, fancyListParser.Open returns no list for a marker line without
\* content or with blank content: for bullets and ordered markers, under
\* the document and under a list item, also when the start is 1.
C13_Theorem ==
    \A k \in DOMAIN calls :
        (AfterParagraph(calls[k]) /\ NoContent(calls[k])) => calls[k].ret = "nil"

\* Under the paragraph of a list item, a line "1." without content opened
\* no list.
C13_Witness ==
    \E k \in DOMAIN calls :
        /\ AfterParagraph(calls[k]) /\ NoContent(calls[k])
        /\ nodes[calls[k].parent].kind = "ListItem"
        /\ MarkerToken(calls[k].peek, OpenMatch(calls[k])) = <<"1">>
        /\ calls[k].ret = "nil"

(***************************************************************************)
(* Documents whose numeric lists that start at 1 are opened by "#": no     *)
(* line carries the marker "1"                                             *)
(***************************************************************************)
HashLineSet ==
    { <<"x", "\n">>, <<"\n">> }
    \cup { MkLine(0, t, ".") : t \in { <<"#">>, <<"2">>, <<"a">>, <<"A">>, <<"i">> } }

NextHash ==
    \/ \E l \in HashLineSet : NextLine(l)
    \/ EndOfInput
    \/ fancyListParser_Continue
    \/ fancyListItemParser_Continue
    \/ fancyListParser_Open
    \/ fancyListItemParser_Open
    \/ paragraph_Open
    \/ paragraph_Continue
    \/ fancyListParser_Close
    \/ fancyListItemParser_Close
    \/ paragraph_Close
    \/ StartRender
    \/ fancyListHTMLRenderer_renderList
    \/ fancyListItemHTMLRenderer_renderListItem

SpecHash == Init /\ [][NextHash]_vars

(***************************************************************************)
(* Properties of a list opened by "#"                                      *)
(***************************************************************************)
\* A list as fancyListParser.Open leaves it for a first marker "#"
HashOpened(start, attrs) == start = 1 /\ attrs = <<>>

\* C14: a list whose first marker is "#" is opened with Start 1 and without
\* a type attribute (and no other marker of these documents opens such a
\* list); fancyListParser.Continue then continues it for a digit marker and
\* for "#" and closes it for a letter marker, and renderList writes
\* class="fancy fl-num" type="1" start="1" for it.
C14_Theorem ==
    /\ \A k \in DOMAIN calls :
          LET c == calls[k] IN
          /\ (c.cb = "fancyListParser.Open" /\ c.ret = "node")
                => (MarkerToken(c.peek, OpenMatch(c)) = <<"#">>
                       <=> HashOpened(nodes[c.node].start, nodes[c.node].attrs))
          /\ (CompatibleMarker(c) /\ HashOpened(c.start, c.attrs))
                => /\ (CallToken(c) = <<"#">> \/ CallMatch(c).typ = orderedList)
                         => c.ret = "continue"
                   /\ (CallToken(c) # <<"#">> /\ CallMatch(c).typ = orderedListFancy)
                         => c.ret = "close"
    /\ (/\ wrote.node # 0 /\ wrote.entering
        /\ nodes[wrote.node].kind = "List"
        /\ HashOpened(nodes[wrote.node].start, nodes[wrote.node].attrs))
          => wrote.text = <<"<", "ol", " class=\"", "fancy", " ", "fl-num", "\"",
                            " type=\"1\"", " start=\"1\"", ">\n">>

\* A list opened by "#" was continued by the line "2.".
C14_Witness ==
    \E k \in DOMAIN calls :
        /\ CompatibleMarker(calls[k])
        /\ HashOpened(calls[k].start, calls[k].attrs)
        /\ CallToken(calls[k]) = <<"2">>
        /\ calls[k].ret = "continue"

(***************************************************************************)
(* Properties of fancyListParser.Continue on the kind and the delimiter of *)
(* a marker                                                                *)
(***************************************************************************)
\* A call of fancyListParser.Continue of an ordered list on a line in item
\* position whose ordered marker has the type of the list (or is "#"),
\* whatever its delimiter
SameTypeMarker(c) ==
    /\ InItemPosition(c)
    /\ CallMatch(c).typ \in {orderedList, orderedListFancy}
    /\ IsOrdered(nodes[c.node])
    /\ \/ CallToken(c) = <<"#">>
       \/ expectedType(CallToken(c), CallMatch(c).typ, TypeTag(c.attrs)) = TypeTag(c.attrs)

\* A later callback of the same line opened, under the same parent, a list
\* with the given marker byte
OpensListWith(k, marker) ==
    \E j \in (k + 1)..Len(calls) :
        /\ calls[j].cb = "fancyListParser.Open"
        /\ calls[j].ret = "node"
        /\ calls[j].parent = calls[k].parent
        /\ nodes[calls[j].node].marker = marker

KindMismatch(c) ==
    /\ InItemPosition(c)
    /\ \/ CallMatch(c).typ = bulletList /\ IsOrdered(nodes[c.node])
       \/ CallMatch(c).typ \in {orderedList, orderedListFancy} /\ ~IsOrdered(nodes[c.node])
       \/ /\ CallMatch(c).typ = bulletList /\ ~IsOrdered(nodes[c.node])
          /\ MarkerByte(c.peek, CallMatch(c)) # nodes[c.node].marker

\* ... or the bullet character that opened the bullet list
SameBullet(c) ==
    /\ InItemPosition(c)
    /\ CallMatch(c).typ = bulletList /\ ~IsOrdered(nodes[c.node])
    /\ MarkerByte(c.peek, CallMatch(c)) = nodes[c.node].marker

\* C16: a bullet marker line never continues an ordered list, an ordered
\* marker line never continues a bullet list, and a bullet marker line
\* continues a bullet list only when its bullet character is the one that
\* opened the list; in each failing case Continue returns close and the
\* line starts a new list.
C16_Claim ==
    \A k \in DOMAIN calls :
        /\ KindMismatch(calls[k]) =>
              /\ calls[k].ret = "close"
              /\ ctl.phase = "line"
                    => OpensListWith(k, MarkerByte(calls[k].peek, CallMatch(calls[k])))
        /\ SameBullet(calls[k]) => calls[k].ret = "continue"

\* The same statement, for the markers fancyListParser.Open does not reject
\* (every token but the ones that start with "i" or "I" and are no roman
\* numeral).
C16_Agreeing ==
    \A k \in DOMAIN calls :
        /\ (/\ KindMismatch(calls[k])
            /\ ~OpenStart(CallToken(calls[k]), CallMatch(calls[k]).typ).reject) =>
              /\ calls[k].ret = "close"
              /\ ctl.phase = "line"
                    => OpensListWith(k, MarkerByte(calls[k].peek, CallMatch(calls[k])))
        /\ SameBullet(calls[k]) => calls[k].ret = "continue"

(***************************************************************************)
(* Documents with attributes attached from outside: a block-attributes     *)
(* extension sets attributes on the lists of the parsed tree before it is  *)
(* rendered                                                                *)
(***************************************************************************)
MaxAttrs == 2

AttrLineSet ==
    { <<"x", "\n">>, <<"-", " ", "x", "\n">> }
    \cup { MkLine(0, t, ".") : t \in { <<"1">>, <<"a">> } }

ExternalAttrs ==
    { [name |-> "class", value |-> "foo"],
      [name |-> "bar", value |-> "baz"],
      [name |-> "type", value |-> "A"] }

\* The number of attributes other than type on the lists of the tree
RECURSIVE AttachedFrom(_, _)
AttachedFrom(ns, id) ==
    IF id > Len(ns) THEN 0
    ELSE (IF ns[id].kind = "List"
          THEN Cardinality({k \in DOMAIN ns[id].attrs : ns[id].attrs[k].name # "type"})
          ELSE 0)
         + AttachedFrom(ns, id + 1)

\* The extension's transformer gives the attribute a to the list id: an
\* attribute the list already has is either kept or replaced.
blockattr_Transform(id, a) ==
    /\ ctl.phase = "parsed"
    /\ id \in DOMAIN nodes
    /\ nodes[id].kind = "List"
    /\ a.name = "type" \/ AttachedFrom(nodes, 1) < MaxAttrs
    /\ \E keep \in BOOLEAN :
          nodes' = IF keep /\ AttributeString(nodes[id].attrs, a.name)[1] THEN nodes
                   ELSE [nodes EXCEPT ![id].attrs = SetAttribute(@, a.name, a.value)]
    /\ UNCHANGED <<opened, skipListParserKey, emptyListItemWithBlankLines, line, rpos,
                   nread, ctl, calls>>
    /\ UNCHANGED renderVars
    /\ UNCHANGED fnVars

NextAttr ==
    \/ \E l \in AttrLineSet : ShortLine(l)
    \/ EndOfInput
    \/ fancyListParser_Continue
    \/ fancyListItemParser_Continue
    \/ fancyListParser_Open
    \/ fancyListItemParser_Open
    \/ paragraph_Open
    \/ paragraph_Continue
    \/ fancyListParser_Close
    \/ fancyListItemParser_Close
    \/ paragraph_Close
    \/ \E id \in DOMAIN nodes : \E a \in ExternalAttrs : blockattr_Transform(id, a)
    \/ StartRender
    \/ fancyListHTMLRenderer_renderList
    \/ fancyListItemHTMLRenderer_renderListItem

SpecAttr == Init /\ [][NextAttr]_vars

(***************************************************************************)
(* Properties of renderList on attached attributes                         *)
(***************************************************************************)
\* The value of the class attribute of a list, "" without one
ClassOf(n) ==
    IF \E k \in DOMAIN n.attrs : n.attrs[k].name = "class"
    THEN (CHOOSE a \in Range(n.attrs) : a.name = "class").value
    ELSE ""

\* The attributes other than class and type, as written in a tag
RECURSIVE OtherAttributes(_)
OtherAttributes(attrs) ==
    IF Len(attrs) = 0 THEN ""
    ELSE (IF Head(attrs).name \in {"class", "type"} THEN ""
          ELSE " " \o Head(attrs).name \o "=\"" \o Head(attrs).value \o "\"")
         \o OtherAttributes(Tail(attrs))

\* The opening tag of a list: the computed classes with the attached class
\* after them in one class attribute, type and start for an ordered list,
\* then every other attribute
OpeningTag(n) ==
    LET T == TypeTag(n.attrs)
        S == IF T \in {"a", "A", "i", "I"} THEN ClassSuffix(T) ELSE "num"
    IN
    IF IsOrdered(n)
    THEN "<ol class=\"fancy fl-" \o S \o (IF ClassOf(n) # "" THEN " " \o ClassOf(n) ELSE "")
           \o "\" type=\"" \o T \o "\" start=\"" \o Itoa(n.start) \o "\""
           \o OtherAttributes(n.attrs) \o ">\n"
    ELSE "<ul" \o (IF ClassOf(n) # "" THEN " class=\"" \o ClassOf(n) \o "\"" ELSE "")
           \o OtherAttributes(n.attrs) \o ">\n"

\* How many times the writes of a tag start an attribute of the given name
Emitted(text, name) ==
    Cardinality({k \in DOMAIN text :
                    \/ text[k] = " " \o name \o "=\""
                    \/ text[k] = " " \o name \o "=\"1\""
                    \/ text[k] = " " /\ k < Len(text) /\ text[k + 1] = name})

\* renderList has written the opening tag of a list.
ListOpened == wrote.node # 0 /\ nodes[wrote.node].kind = "List" /\ wrote.entering

\* The list has an attribute that no parser gave it.
HasAttached(n) == \E k \in DOMAIN n.attrs : n.attrs[k].name # "type"

\* C17: renderList merges attached attributes as follows: an attached class
\* comes after the computed classes inside the single class attribute
\* ("fancy fl-S foo" for an ordered list, "foo" alone for a bullet list),
\* every other attached attribute is written after type and start, and
\* class and type are each written exactly once.
C17_Claim ==
    (ListOpened /\ HasAttached(nodes[wrote.node])) =>
        /\ Join(wrote.text) = OpeningTag(nodes[wrote.node])
        /\ Emitted(wrote.text, "class") = 1
        /\ Emitted(wrote.text, "type") = 1

\* C17: renderList merges attached attributes as follows: an attached class
\* comes after the computed classes inside the single class attribute
\* ("fancy fl-S foo" for an ordered list, "foo" alone for a bullet list),
\* every attached attribute other than class and type is written after
\* type and start; an ordered list has class and type written exactly once,
\* a bullet list has type never written (an attached type is left out) and
\* class written once when one is attached, else never.
C17_Theorem ==
    ListOpened =>
        LET n == nodes[wrote.node] IN
        /\ Join(wrote.text) = OpeningTag(n)
        /\ Emitted(wrote.text, "class") = IF IsOrdered(n) \/ ClassOf(n) # "" THEN 1 ELSE 0
        /\ Emitted(wrote.text, "type") = IF IsOrdered(n) THEN 1 ELSE 0

\* The opening tag of a numeric list with the attached attributes class
\* "foo" and bar "baz" was written.
C17_Witness ==
    /\ ListOpened
    /\ Join(wrote.text) = "<ol class=\"fancy fl-num foo\" type=\"1\" start=\"1\" bar=\"baz\">\n"

(***************************************************************************)
(* Properties of the classification of a letter token by                   *)
(* fancyListParser.Open                                                    *)
(***************************************************************************)
\* The classifier run scanned a marker made of ASCII letters.
LetterMarker ==
    /\ fn.ran
    /\ Len(tok) > 0
    /\ AllLetters(tok)
    /\ fn.scan.typ = orderedListFancy

\* The alphabetic type tag that goes with the case of the first byte
AlphaTag == IF tok[1] \in Range(LcLetters) THEN "a" ELSE "A"

\* C18: in fancyListParser.Open a letter token that roman decoding does not
\* accept is classified as alphabetic: the list is opened with the type "a"
\* or "A" by the case of the first byte and with the alphabetic value as
\* start, and is rejected only when that value is 0; hence Open gives every
\* letter token the type getListTypeFromMarker gives it.
C18_Claim ==
    LetterMarker =>
        /\ ~fn.roman.ok =>
              IF fn.alpha = 0 THEN ~fn.open.node
              ELSE /\ fn.open.node
                   /\ fn.open.fltype = AlphaTag
                   /\ fn.open.start = fn.alpha
        /\ fn.roman.ok \/ fn.alpha # 0 =>
              fn.open.node /\ fn.open.fltype = fn.ltype[1]

\* The same statement, for the tokens that do not start with "i" or "I".
C18_OtherFirst ==
    (LetterMarker /\ tok[1] \notin {"i", "I"}) =>
        /\ ~fn.roman.ok
        /\ fn.alpha # 0
        /\ fn.open.node
        /\ fn.open.fltype = AlphaTag
        /\ fn.open.start = fn.alpha
        /\ fn.open.fltype = fn.ltype[1]

(***************************************************************************)
(* Properties of the content span and of the letter markers of             *)
(* parseListItem                                                           *)
(***************************************************************************)
\* parseListItem recognised the marker typed (with its delimiter).
Recognised == fn.ran /\ MarkerShape /\ fn.scan.typ # notList

\* C19: parseListItem returns the content span (-1, -1) whenever a
\* recognised marker is followed by nothing or only by blank bytes up to the
\* end of the line (a newline right after the marker included), and a span
\* 0 <= content_start <= content_end otherwise.
C19_Claim ==
    Recognised =>
        IF IsBlank(AfterMarker)
        THEN M(fn.scan, 4) = -1 /\ M(fn.scan, 5) = -1
        ELSE 0 <= M(fn.scan, 4) /\ M(fn.scan, 4) <= M(fn.scan, 5)

\* C19: parseListItem returns the content span (-1, -1) exactly when the
\* line ends with the recognised marker; when a byte follows, blank or not,
\* content_start is the index of that byte and content_end the length of
\* the line, less one when the line ends with a newline that is not the
\* byte right after the marker, so that 0 <= content_start <= content_end.
C19_Theorem ==
    Recognised =>
        IF AfterMarker = <<>>
        THEN M(fn.scan, 4) = -1 /\ M(fn.scan, 5) = -1
        ELSE /\ M(fn.scan, 4) = Len(fn.line) - Len(AfterMarker)
             /\ M(fn.scan, 5) = IF fn.line[Len(fn.line)] = "\n" /\ AfterMarker[1] # "\n"
                                THEN Len(fn.line) - 1 ELSE Len(fn.line)
             /\ 0 <= M(fn.scan, 4)
             /\ M(fn.scan, 4) <= M(fn.scan, 5)

\* "-" followed by a newline was scanned: the content span is (1, 2).
C19_Witness ==
    /\ Recognised
    /\ fn.line = <<"-", "\n">>
    /\ fn.scan.typ = bulletList
    /\ M(fn.scan, 4) = 1
    /\ M(fn.scan, 5) = 2

\* What C20 requires of a line for a letter marker
AsciiLetterMarker ==
    /\ fn.ind <= 3
    /\ Len(tok) >= 1 /\ Len(tok) <= 6
    /\ AllLetters(tok)
    /\ fn.delim \in Delims
    /\ fn.tail = <<>> \/ fn.tail[1] \in {" ", "\t", "\n"}

\* C20: for a marker other than "#", parseListItem returns orderedListFancy
\* exactly when, after 0 to 3 leading spaces, the marker is a run of 1 to 6
\* ASCII letters followed by "." or ")" and then by a space, a tab, a
\* newline or the end of the input; a run of 7 letters or more, or a run
\* with a byte outside A-Z and a-z, yields notList.
C20_Claim ==
    (fn.ran /\ tok # <<"#">>) =>
        /\ fn.scan.typ = orderedListFancy <=> AsciiLetterMarker
        /\ (fn.delim \in Delims /\ (Len(tok) >= 7 \/ ~AllLetters(tok)) /\ ~AllDigits(tok))
              => fn.scan.typ = notList

\* The same statement, for the markers typed with ASCII bytes only.
C20_Ascii ==
    (fn.ran /\ tok # <<"#">>
       /\ \A k \in DOMAIN tok : tok[k] \notin Latin1Upper \cup Latin1Lower \cup Latin1Other) =>
        /\ fn.scan.typ = orderedListFancy <=> AsciiLetterMarker
        /\ (fn.delim \in Delims /\ (Len(tok) >= 7 \/ ~AllLetters(tok)) /\ ~AllDigits(tok))
              => fn.scan.typ = notList

\* The line "a", 0xC3, 0xAA, ". x" (the UTF-8 bytes of "a", e circumflex)
\* was scanned as a letter marker.
C20_Latin1Marker ==
    /\ fn.ran
    /\ fn.line = <<"a", "0xC3", "0xAA", ".", " ", "x", "\n">>
    /\ fn.scan.typ = orderedListFancy

(***************************************************************************)
(* Documents with blank lines: items without content, content indented to  *)
(* the content column of an item, a list nested on the line of its item    *)
(***************************************************************************)
MaxBlank == 3

BlankLineSet ==
    { <<"\n">>, <<"x", "\n">>, <<" ", " ", "x", "\n">>, <<" ", " ", " ", "x", "\n">>,
      <<"-", " ", "x", "\n">>, <<"*", " ", "x", "\n">>, <<"-", " ", "-", "\n">>,
      MkLine(0, <<"1">>, "."), MkLine(0, <<"2">>, ".") }
    \cup { MkEmpty(0, t) : t \in { <<"-">>, <<"1", ".">> } }

BlankLine(l) ==
    /\ nread < MaxBlank
    /\ NextLine(l)

NextBlank ==
    \/ \E l \in BlankLineSet : BlankLine(l)
    \/ EndOfInput
    \/ fancyListParser_Continue
    \/ fancyListItemParser_Continue
    \/ fancyListParser_Open
    \/ fancyListItemParser_Open
    \/ paragraph_Open
    \/ paragraph_Continue
    \/ fancyListParser_Close
    \/ fancyListItemParser_Close
    \/ paragraph_Close
    \/ StartRender
    \/ fancyListHTMLRenderer_renderList
    \/ fancyListItemHTMLRenderer_renderListItem

SpecBlank == Init /\ [][NextBlank]_vars

(***************************************************************************)
(* Properties of the flag emptyListItemWithBlankLines                      *)
(***************************************************************************)
\* The flag as the callback after call k finds it (or as it is now, when
\* call k is the latest)
FlagAfter(k) ==
    IF k < Len(calls) THEN calls[k + 1].flag ELSE emptyListItemWithBlankLines

ListContinue(c) == c.cb = "fancyListParser.Continue"

\* A call of fancyListParser.Continue with the flag set, on a line that is
\* not blank and has no list marker, for a list whose last item is empty
PendingNoMarker(c) ==
    /\ ListContinue(c)
    /\ ~IsBlank(c.peek)
    /\ c.flag
    /\ c.lastIsEmpty
    /\ CallMatch(c).typ = notList

\* C21: fancyListParser.Continue on a blank line returns continue and
\* leaves the flag set iff it was set already or the list's last item has no
\* children; with the flag set, Continue on a non-blank line without a list
\* marker closes a list whose last item is empty, at every indentation, and
\* once the line is processed the list is closed with its last item still
\* empty.
C21_Theorem ==
    \A k \in DOMAIN calls :
        LET c == calls[k] IN
        /\ (ListContinue(c) /\ IsBlank(c.peek)) =>
              /\ c.ret = "continue"
              /\ FlagAfter(k) = (c.flag \/ c.lastIsEmpty)
        /\ PendingNoMarker(c) =>
              /\ c.ret = "close"
              /\ ctl.phase = "line" =>
                    /\ \A j \in DOMAIN opened : opened[j] # c.node
                    /\ ChildCount(nodes, LastChild(nodes, c.node)) = 0

\* After "-" and a blank line, the line "  x", indented to the content
\* column of the empty item, closed the list and became a paragraph of the
\* document.
C21_Witness ==
    \E k \in DOMAIN calls :
        /\ PendingNoMarker(calls[k])
        /\ calls[k].peek = <<" ", " ", "x", "\n">>
        /\ IndentWidth(calls[k].peek, calls[k].rpos)[1] = calls[k].offset
        /\ ctl.phase = "line"
        /\ nodes[nodes[Root].children[Len(nodes[Root].children)]].kind = "Paragraph"

\* A call of fancyListParser.Continue with the flag set, on a marker line in
\* item position whose marker passes the kind, delimiter and type checks of
\* the list
PendingCompatible(c) ==
    /\ ListContinue(c)
    /\ c.flag
    /\ ~IsBlank(c.peek)
    /\ \/ SameBullet(c)
       \/ CompatibleMarker(c) /\ SameTypeMarker(c)

\* A later callback of the same line opened an item of the list of call k
OpensItem(k) ==
    \E j \in (k + 1)..Len(calls) :
        /\ calls[j].cb = "fancyListItemParser.Open"
        /\ calls[j].ret = "node"
        /\ calls[j].parent = calls[k].node

ItemContent(c) ==
    /\ ListContinue(c)
    /\ ~IsBlank(c.peek)
    /\ ~c.lastIsEmpty
    /\ IndentWidth(c.peek, c.rpos)[1] >= c.offset

\* C23: the flag does not pass from one list to another: every callback
\* that opens a list or an item leaves it clear, and fancyListParser.Continue
\* of a list whose last item has children returns continue on a line
\* indented to the content of that item, whatever an empty item of another
\* list (nested or earlier) left in the flag.
C23_Claim ==
    \A k \in DOMAIN calls :
        /\ (calls[k].cb \in {"fancyListParser.Open", "fancyListItemParser.Open"}
               /\ calls[k].ret = "node") => ~FlagAfter(k)
        /\ ItemContent(calls[k]) => calls[k].ret = "continue"

\* The part of the statement about the callbacks that open a list or an
\* item: each of them leaves the flag clear.
C23_ClearedOnOpen ==
    \A k \in DOMAIN calls :
        (calls[k].cb \in {"fancyListParser.Open", "fancyListItemParser.Open"}
            /\ calls[k].ret = "node") => ~FlagAfter(k)

\* The flag set for the empty item of a nested list closed the enclosing
\* list on a line indented to the content of its item.
C23_Leaked ==
    \E k \in DOMAIN calls :
        /\ ItemContent(calls[k])
        /\ calls[k].flag
        /\ calls[k].ret = "close"
        /\ nodes[calls[k].node].parent = Root

(***************************************************************************)
(* Properties of fancyListParser.Close                                     *)
(***************************************************************************)
\* The items of a list and the blocks directly under its items
ItemsOf(ns, id) == Range(ns[id].children)

BlocksUnder(ns, id) == UNION { Range(ns[it].children) : it \in ItemsOf(ns, id) }

\* Some item other than the first is preceded by a blank line, or some item
\* has a child after its first child that is preceded by a blank line.
BlankSeparated(ns, id) ==
    \/ \E it \in ItemsOf(ns, id) : it # ns[id].children[1] /\ ns[it].blankPrev
    \/ \E it \in ItemsOf(ns, id) :
          \E b \in Range(ns[it].children) : b # ns[it].children[1] /\ ns[b].blankPrev

\* The step that runs fancyListParser.Close
ClosesList == ctl.phase = "close" /\ nodes[opened[ctl.j]].kind = "List" /\ ctl' # ctl

\* C24: when a list closes, it is loose iff some item other than the first,
\* or some child of an item after the item's first child, is preceded by a
\* blank line. In a tight list every Paragraph directly under an item is
\* replaced by a TextBlock with the same lines; in a loose list no paragraph
\* is replaced. Every other block, the start of the list, its items and
\* their values stay as they are.
C24_Theorem ==
    [][ClosesList =>
          LET id == opened[ctl.j] IN
          /\ nodes'[id].isTight = ~BlankSeparated(nodes, id)
          /\ nodes'[id] = [nodes[id] EXCEPT !.isTight = ~BlankSeparated(nodes, id)]
          /\ DOMAIN nodes' = DOMAIN nodes
          /\ \A n \in DOMAIN nodes \ {id} :
                IF n \in BlocksUnder(nodes, id) /\ nodes[n].kind = "Paragraph"
                   /\ ~BlankSeparated(nodes, id)
                THEN /\ nodes'[n].kind = "TextBlock"
                     /\ nodes'[n].lines = nodes[n].lines
                     /\ nodes'[n].parent = nodes[n].parent
                ELSE nodes'[n] = nodes[n]
    ]_vars

\* The list opened by "1. x" was closed loose: after a blank line its item
\* took "   x" as a second paragraph, both paragraphs were kept and the
\* item's value is 1.
C24_Witness ==
    \E id \in DOMAIN nodes :
        /\ nodes[id].kind = "List"
        /\ \A j \in DOMAIN opened : opened[j] # id
        /\ ~nodes[id].isTight
        /\ nodes[id].start = 1
        /\ Len(nodes[id].children) = 1
        /\ LET it == nodes[id].children[1] IN
              /\ Len(nodes[it].children) = 2
              /\ nodes[nodes[it].children[1]].kind = "Paragraph"
              /\ nodes[nodes[it].children[2]].kind = "Paragraph"
              /\ nodes[nodes[it].children[2]].blankPrev
              /\ ValueOf(nodes[it]) = "1"

\* A list was closed tight and the paragraph of its item replaced by a
\* TextBlock.
C24_Tight ==
    \E id \in DOMAIN nodes :
        /\ nodes[id].kind = "List"
        /\ \A j \in DOMAIN opened : opened[j] # id
        /\ nodes[id].isTight
        /\ Len(nodes[id].children) = 2
        /\ \E b \in BlocksUnder(nodes, id) : nodes[b].kind = "TextBlock"

(***************************************************************************)
(* The reader during the callbacks of fancyListParser                      *)
(***************************************************************************)
ListContinueStep == ctl.phase = "cont" /\ nodes[opened[ctl.i]].kind = "List" /\ ctl' # ctl

ListOpenStep == ctl.phase = "open" /\ ctl.k = 1 /\ ctl' # ctl

ItemOpenStep == ctl.phase = "open" /\ ctl.k = 2 /\ ctl' # ctl

\* The latest callback was fancyListParser.Continue and returned close.
JustClosed ==
    /\ Len(calls) > 0
    /\ ListContinue(calls[Len(calls)])
    /\ calls[Len(calls)].ret = "close"

\* The reader position as the callback after call k finds it
RposAfter(k) == IF k < Len(calls) THEN calls[k + 1].rpos ELSE rpos

\* C25: fancyListParser.Continue and fancyListParser.Open leave the reader
\* where it is, whatever they return; when Open is tried after Continue
\* returned close it peeks the line Continue peeked, at the same position;
\* the reader moves over a marker only when fancyListItemParser.Open opens
\* an item with content.
C25_Theorem ==
    [][/\ (ListContinueStep \/ ListOpenStep) => (rpos' = rpos /\ line' = line)
       /\ (ListOpenStep /\ JustClosed) =>
             /\ PeekLine = calls[Len(calls)].peek
             /\ rpos = calls[Len(calls)].rpos
       /\ (ItemOpenStep /\ Len(nodes') > Len(nodes)) =>
             LET r == matchesListItem(PeekLine, FALSE) IN
             IF M(r, 4) < 0 \/ IsBlank(Slice(PeekLine, M(r, 4), M(r, 5)))
             THEN rpos' = rpos
             ELSE rpos' >= rpos + M(r, 3)
    ]_vars

\* Continue of a list returned close on a marker line; Open, called next at
\* the same reader position, opened a list on the same peeked line and,
\* asked again under the new list, returned no list and left the reader in
\* place; the item parser then moved the reader over the marker.
C25_Witness ==
    \E k \in DOMAIN calls :
        /\ ListContinue(calls[k]) /\ calls[k].ret = "close"
        /\ k + 3 <= Len(calls)
        /\ calls[k + 1].cb = "fancyListParser.Open" /\ calls[k + 1].ret = "node"
        /\ calls[k + 1].peek = calls[k].peek /\ calls[k + 1].rpos = calls[k].rpos
        /\ calls[k + 2].cb = "fancyListParser.Open" /\ calls[k + 2].ret = "nil"
        /\ calls[k + 3].cb = "fancyListItemParser.Open" /\ calls[k + 3].ret = "node"
        /\ calls[k + 3].rpos = calls[k].rpos
        /\ RposAfter(k + 3) > calls[k].rpos

(***************************************************************************)
(* Classifier runs on long tokens and on bullets: a token typed byte by    *)
(* byte, its last letter repeated up to MaxToken bytes, or a bullet        *)
(***************************************************************************)
MaxToken == 7

RepeatLetter ==
    /\ ctl.phase = "line"
    /\ nread = 0
    /\ Len(tok) >= 1
    /\ AllLetters(tok)
    /\ Len(tok) < MaxToken
    /\ tok' = Append(tok, tok[Len(tok)])
    /\ fn' = NoFn
    /\ UNCHANGED parseVars
    /\ UNCHANGED renderVars

\* The line is scanned and offered to fancyListParser.Open under the root of
\* an empty document; alphabeticToNumber and romanToNumber are called, as in
\* Open, for a token the scanner accepted.
OpenLine(l, delim) ==
    /\ ctl.phase = "line"
    /\ nread = 0
    /\ ~fn.ran
    /\ \E r \in {parseListItem(l)} :
          fn' = [ran |-> TRUE, delim |-> delim, line |-> l, scan |-> r,
                 alpha |-> IF r.typ = orderedListFancy THEN alphabeticToNumber(tok) ELSE 0,
                 roman |-> IF r.typ = orderedListFancy THEN romanToNumber(tok)
                           ELSE [num |-> 0, ok |-> FALSE],
                 ltype |-> getListTypeFromMarker(tok, r.typ),
                 open |-> fancyListParserOpen("none", 0, Root, "Document", l)]
    /\ UNCHANGED tok
    /\ UNCHANGED parseVars
    /\ UNCHANGED renderVars

\* The token followed by delim, a space and content
RunLong(delim) == Len(tok) >= 1 /\ OpenLine(MkLine(0, tok, delim), delim)

\* A bullet followed by a space and content
RunBullet(b) == Len(tok) = 0 /\ OpenLine(<<b, " ", "x", "\n">>, "")

NextStart ==
    \/ \E c \in TokenBytes : TypeByte(c)
    \/ RepeatLetter
    \/ \E d \in {".", ")"} : RunLong(d)
    \/ \E b \in Bullets : RunBullet(b)

SpecStart == Init /\ [][NextStart]_vars

(***************************************************************************)
(* The range of the start value                                            *)
(***************************************************************************)
\* The largest 32-bit signed integer
MaxInt32 == (2^30 - 1) + 2^30

\* C26: every list fancyListParser.Open opens has a start from 0 to
\* 999,999,999: a digit marker has at most 9 digits and gives their decimal
\* value, a letter marker has at most 6 letters and gives a value from 1 to
\* 321,272,406, a roman marker gives a positive value, "#" gives 1, a bullet
\* leaves the start at 0 and the sentinel -1 is never stored; for every
\* token the scanner accepts, the value alphabeticToNumber computes and the
\* largest term it adds fit a signed 32-bit integer.
C26_Theorem ==
    fn.ran =>
        /\ fn.scan.typ = orderedListFancy =>
              /\ Len(tok) <= 6
              /\ fn.alpha >= 0 /\ fn.alpha <= 321272406 /\ fn.alpha <= MaxInt32
              /\ 26 * pow(26, Len(tok) - 1) <= MaxInt32
        /\ fn.open.node =>
              /\ fn.open.start >= 0 /\ fn.open.start <= 999999999
              /\ fn.scan.typ = bulletList => fn.open.start = 0
              /\ fn.scan.typ = orderedList =>
                    Len(tok) <= 9 /\ fn.open.start = DecimalValue(tok, 1)
              /\ tok = <<"#">> => fn.open.start = 1
              /\ fn.open.fltype \in {"a", "A"} =>
                    /\ fn.open.start >= 1 /\ fn.open.start <= 321272406
                    /\ fn.open.start = fn.alpha
              /\ fn.open.fltype \in {"i", "I"} =>
                    fn.open.start >= 1 /\ fn.open.start = fn.roman.num

\* The six letters zzzzzz opened a list at 321,272,406.
C26_Witness ==
    /\ fn.ran
    /\ tok = <<"z", "z", "z", "z", "z", "z">>
    /\ fn.open.node
    /\ fn.open.start = 321272406

\* A bullet opened a list whose start is 0.
C26_Bullet ==
    /\ fn.ran
    /\ fn.scan.typ = bulletList
    /\ fn.open.node
    /\ fn.open.start = 0

(***************************************************************************)
(* The items of a list and the check that admitted them                    *)
(***************************************************************************)
\* Callback j opened an item under a list that was open before this line.
AdmitsItem(j) ==
    /\ calls[j].cb = "fancyListItemParser.Open"
    /\ calls[j].ret = "node"
    /\ ~\E i \in 1..(j - 1) :
          /\ calls[i].cb = "fancyListParser.Open"
          /\ calls[i].ret = "node"
          /\ calls[i].node = calls[j].parent

\* The marker of the line passes the check of fancyListParser.Continue: a
\* bullet line with the list's bullet, or an ordered line with the list's
\* delimiter whose effective type is the list's type tag.
PassedCheck(c) ==
    \/ SameBullet(c)
    \/ CompatibleMarker(c) /\ SameTypeMarker(c)

\* C27: every item opened under a list that was open before the line was
\* admitted by fancyListParser.Continue of that list on the same line and
\* at the same reader position, which returned continue for a marker that
\* passes its check: for an ordered list the delimiter of the list and an
\* effective type (the list's own for "#", the override for a bare "i" or
\* "I", getListTypeFromMarker otherwise) equal to the list's type tag, "1"
\* when absent.
C27_Theorem ==
    \A j \in DOMAIN calls :
        AdmitsItem(j) =>
            \E k \in 1..(j - 1) :
                /\ ListContinue(calls[k])
                /\ calls[k].node = calls[j].parent
                /\ calls[k].peek = calls[j].peek
                /\ calls[k].rpos = calls[j].rpos
                /\ calls[k].ret = "continue"
                /\ PassedCheck(calls[k])
                /\ IsOrdered(nodes[calls[k].node]) =>
                      /\ MarkerByte(calls[k].peek, CallMatch(calls[k])) = nodes[calls[k].node].marker
                      /\ \/ CallToken(calls[k]) = <<"#">>
                         \/ expectedType(CallToken(calls[k]), CallMatch(calls[k]).typ,
                                         TypeTag(calls[k].attrs)) = TypeTag(calls[k].attrs)

\* The list opened by "a." took "i." as its second item: Continue read the
\* bare "i" as a letter of the alphabetic list.
C27_Witness ==
    \E j \in DOMAIN calls :
        /\ AdmitsItem(j)
        /\ TypeTag(nodes[calls[j].parent].attrs) = "a"
        /\ MarkerToken(calls[j].peek, matchesListItem(calls[j].peek, FALSE)) = <<"i">>
        /\ Len(nodes[calls[j].parent].children) = 2

(***************************************************************************)
(* The first item of a list                                                *)
(***************************************************************************)
OpensList(c) == c.cb = "fancyListParser.Open" /\ c.ret = "node"

\* The callbacks that follow call k opened the first item of its list on
\* the same line: fancyListParser.Open, asked under the new list, returned
\* no list, and fancyListItemParser.Open returned an item.
FirstItemOpened(k) ==
    /\ k + 2 <= Len(calls)
    /\ calls[k + 1].cb = "fancyListParser.Open" /\ calls[k + 1].ret = "nil"
    /\ calls[k + 2].cb = "fancyListItemParser.Open" /\ calls[k + 2].ret = "node"
    /\ calls[k + 2].parent = calls[k].node
    /\ calls[k + 2].peek = calls[k].peek /\ calls[k + 2].rpos = calls[k].rpos
    /\ nodes[calls[k].node].children[1] = calls[k + 2].node

\* The engine is between two callbacks of a line that opened no list whose
\* item is still to come.
NoListPending ==
    \A k \in DOMAIN calls : OpensList(calls[k]) => k + 2 <= Len(calls)

\* C28: every line fancyListParser.Open accepts is accepted by
\* fancyListItemParser.Open for the new list, on the same line and at the
\* same reader position; every list has an item once its line is processed,
\* and the list of every call of fancyListParser.Continue has a last child.
C28_Theorem ==
    /\ \A k \in DOMAIN calls :
          /\ (OpensList(calls[k]) /\ k + 2 <= Len(calls)) => FirstItemOpened(k)
          /\ (OpensList(calls[k]) /\ ctl.phase = "line") => FirstItemOpened(k)
          /\ ListContinue(calls[k]) => Len(nodes[calls[k].node].children) >= 1
    /\ (ctl.phase = "cont" /\ nodes[opened[ctl.i]].kind = "List")
          => Len(nodes[opened[ctl.i]].children) >= 1
    /\ NoListPending =>
          \A id \in DOMAIN nodes :
              nodes[id].kind = "List" => Len(nodes[id].children) >= 1

\* The line "   - x", indented by three spaces, opened a list and its first
\* item, and Continue was called for that list on the next line.
C28_Witness ==
    /\ \E id \in DOMAIN nodes :
          /\ nodes[id].kind = "List" /\ nodes[id].marker = "-"
          /\ nodes[id].parent = Root
          /\ Len(nodes[id].children) >= 1
          /\ nodes[nodes[id].children[1]].offset = 5
          /\ \E k \in DOMAIN calls : ListContinue(calls[k]) /\ calls[k].node = id

(***************************************************************************)
(* Documents with a marker typed in bytes above 0x7F: the two bytes C3 AA  *)
(* (the UTF-8 form of one accented letter) before the delimiter            *)
(***************************************************************************)
MaxLatin == 3

LatinLineSet ==
    { MkLine(0, t, ".") : t \in { <<"A">>, <<"B">>, <<"a">>, <<"0xC3", "0xAA">> } }
    \cup { <<"x", "\n">>, <<"-", " ", "x", "\n">> }

LatinLine(l) ==
    /\ nread < MaxLatin
    /\ NextLine(l)

NextLatin ==
    \/ \E l \in LatinLineSet : LatinLine(l)
    \/ EndOfInput
    \/ fancyListParser_Continue
    \/ fancyListItemParser_Continue
    \/ fancyListParser_Open
    \/ fancyListItemParser_Open
    \/ paragraph_Open
    \/ paragraph_Continue
    \/ fancyListParser_Close
    \/ fancyListItemParser_Close
    \/ paragraph_Close
    \/ StartRender
    \/ fancyListHTMLRenderer_renderList
    \/ fancyListItemHTMLRenderer_renderListItem

SpecLatin == Init /\ [][NextLatin]_vars

(***************************************************************************)
(* Properties of skipListParserKey                                         *)
(***************************************************************************)
\* The skip flag as the callback after call k finds it (or as it is now,
\* when call k is the latest)
SkipAfter(k) == IF k < Len(calls) THEN calls[k + 1].skip ELSE skipListParserKey

\* fancyListItemParser.Continue closed its item on a line with a marker.
ClosedOnMarker(c) ==
    /\ c.cb = "fancyListItemParser.Continue"
    /\ c.ret = "close"
    /\ matchesListItem(c.peek, TRUE).typ # notList

\* After call k, fancyListParser.Open is called on the same line, finds the
\* flag, clears it and returns no list, and fancyListItemParser.Open opens
\* an item of the list of the closed item.
HandedToItemParser(k) ==
    /\ k + 2 <= Len(calls)
    /\ calls[k + 1].cb = "fancyListParser.Open" /\ calls[k + 1].ret = "nil"
    /\ calls[k + 1].skip /\ ~SkipAfter(k + 1)
    /\ calls[k + 1].peek = calls[k].peek /\ calls[k + 1].rpos = calls[k].rpos
    /\ calls[k + 2].cb = "fancyListItemParser.Open" /\ calls[k + 2].ret = "node"
    /\ calls[k + 2].parent = calls[k].parent

\* C29: skipListParserKey is set only by fancyListItemParser.Continue when
\* it closes an item on a line with a list marker; the next call of
\* fancyListParser.Open on that line clears it and returns no list, and the
\* line opens an item of the existing list; the flag is clear whenever the
\* processing of a line begins.
C29_Claim ==
    /\ ctl.phase = "line" => ~skipListParserKey
    /\ \A k \in DOMAIN calls :
          /\ (~calls[k].skip /\ SkipAfter(k)) => ClosedOnMarker(calls[k])
          /\ ClosedOnMarker(calls[k]) =>
                /\ SkipAfter(k)
                /\ k + 2 <= Len(calls) => HandedToItemParser(k)
                /\ ctl.phase = "line" => HandedToItemParser(k)

\* The same statement for the lines whose marker starts with a byte of
\* Trigger (every marker typed in ASCII).
C29_Triggered ==
    /\ \A k \in DOMAIN calls :
          /\ (~calls[k].skip /\ SkipAfter(k)) => ClosedOnMarker(calls[k])
          /\ (ClosedOnMarker(calls[k])
                /\ At(calls[k].peek, M(matchesListItem(calls[k].peek, TRUE), 2)) \in Trigger) =>
                /\ SkipAfter(k)
                /\ k + 2 <= Len(calls) => HandedToItemParser(k)
                /\ ctl.phase = "line" => HandedToItemParser(k)

\* The flag set on the line of bytes C3 AA was still set when the next
\* line, "a. x", closed the list, and fancyListParser.Open returned no list
\* for that line because of it.
C29_Stale ==
    \E k \in DOMAIN calls :
        /\ calls[k].cb = "fancyListParser.Open"
        /\ calls[k].skip
        /\ calls[k].ret = "nil"
        /\ calls[k].peek = MkLine(0, <<"a">>, ".")
        /\ nodes[calls[k].parent].kind = "Document"
        /\ k > 1 /\ ListContinue(calls[k - 1]) /\ calls[k - 1].ret = "close"


(***************************************************************************)
(* The strict mode of matchesListItem and the two indentation guards       *)
(***************************************************************************)
\* The values lastOffset can return: 0 for a list without items, and the
\* offset of an item, match[3] + itemOffset, with match[3] at most the
\* three spaces, the marker and its delimiter, and itemOffset at most 4.
Offsets == 0..(3 + MaxRun + 1 + 4)

\* A list that holds one item of the given offset.
ListOfOffset(offset) ==
    <<[NewNode("List", 0) EXCEPT !.start = 1, !.children = <<2>>],
      [NewNode("ListItem", 1) EXCEPT !.offset = offset]>>

\* C30: matchesListItem returns the same match array and the same kind with
\* strict = true and with strict = false on every line (both are the result
\* of parseListItem, which rejects more than three leading spaces), and for
\* every offset lastOffset can return the guard match[1]-offset < 4 of
\* fancyListParser.Continue is true on every marker line and the guard
\* match[1]-offset > 3 of fancyListItemParser.Open is false; at the two
\* smallest offsets (a list without items, and an item of one marker byte
\* and one space), where the second guard is nearest to firing, Open
\* returns an item for exactly the lines matchesListItem accepts.
C30_Theorem ==
    fn.ran =>
        /\ matchesListItem(fn.line, TRUE) = fn.scan
        /\ matchesListItem(fn.line, FALSE) = fn.scan
        /\ \A offset \in Offsets :
              fn.scan.typ # notList =>
                  /\ M(fn.scan, 1) - offset < 4
                  /\ ~(M(fn.scan, 1) - offset > 3)
        /\ \A offset \in {0, 2} :
              /\ lastOffset(ListOfOffset(offset), 1) = offset
              /\ fancyListItemParserOpen(ListOfOffset(offset)[1], offset, fn.line).node
                    <=> (fn.scan.typ # notList)

\* A marker behind three spaces was accepted in both modes, and a line with
\* the same marker behind four spaces would be rejected in both.
C30_Witness ==
    /\ fn.ran
    /\ fn.ind = 3
    /\ fn.scan.typ # notList
    /\ matchesListItem(fn.line, TRUE).typ = fn.scan.typ
    /\ matchesListItem(<<" ">> \o fn.line, TRUE).typ = notList
    /\ matchesListItem(<<" ">> \o fn.line, FALSE).typ = notList

\* The offsets the callbacks of a document find are among Offsets, and the
\* offset of every item is at least 2.
C30_OffsetsSeen ==
    /\ \A k \in DOMAIN calls : calls[k].offset \in Offsets
    /\ \A id \in DOMAIN nodes :
          nodes[id].kind = "ListItem" => nodes[id].offset \in Offsets \ {0, 1}

=============================================================================
